---- MODULE Spec2Model ----
(***************************************************************************)
(* Streaming audio playback engine of pyglet: the driver audio players     *)
(* (DirectSound, OpenAL, PulseAudio, XAudio2), their media event queue,    *)
(* drift filter and on_eos dispatch, and the PreciseStreamingSource        *)
(* alignment adapter.                                                      *)
(*                                                                         *)
(* One behaviour drives one player of one backend: `backend` is chosen by  *)
(* Init and never changes, and only that backend's actions are enabled.    *)
(* backend = "base" drives the AbstractAudioPlayer event queue through     *)
(* arbitrary append_events / dispatch_media_events / clear calls.          *)
(***************************************************************************)
EXTENDS Integers, Sequences, FiniteSets, TLC

----------------------------------------------------------------------------
(* Bounds of the model *)

\* Longest source, in audio frames.
MaxSrcFrames == 4
\* Frames up to which the DirectSound play cursor may count.
MaxEmitFrames == 7
\* Frames up to which the read index of the PulseAudio stream may count.
MaxReadFrames == 6
\* clear() calls in one behaviour.
MaxClears == 2
\* Media events appended directly to the queue of a player in one behaviour.
MaxEvents == 2
\* Posts that underflow notifications of the PulseAudio stream make in one behaviour.
MaxUnderflows == 2
\* Largest request to a PreciseStreamingSource, in bytes.
MaxRequest == 3
\* Longest stream of the upstream of a PreciseStreamingSource, in bytes.
MaxUpstream == 5
\* Longest packet the upstream of a PreciseStreamingSource returns, in bytes.
MaxPacket == 3
\* seek() calls on a PreciseStreamingSource in one behaviour.
MaxSeeks == 1
\* Bytes up to which the data of a StaticMemorySource counts.
MaxMem == 4
\* Half bytes up to which the byte position of a seek timestamp counts, to
\* either side of zero.
MaxSeekHalves == 11
\* Bytes up to which a source handed to a SourceGroup counts.
MaxSrcBytes == 2
\* add() calls of a SourceGroup that succeed in one behaviour.
MaxAdds == 3
\* add(), remove() and stop() calls on a worker thread in one behaviour.
MaxOps == 3

----------------------------------------------------------------------------
(* AudioFormat *)

channels == 1
sample_size == 16
sample_rate == 2
bytes_per_frame == (sample_size \div 8) * channels
bytes_per_second == bytes_per_frame * sample_rate

align(num_bytes) == num_bytes - (num_bytes % bytes_per_frame)

----------------------------------------------------------------------------
(* Helpers *)

None == 0 - 1
Abs(x) == IF x < 0 THEN 0 - x ELSE x
Min(a, b) == IF a < b THEN a ELSE b
Max(a, b) == IF a > b THEN a ELSE b
\* Frame-aligned byte counts from lo to hi.
Aligned(lo, hi) == {n \in lo..hi : n % bytes_per_frame = 0}

VARIABLES
    backend,                \* which player class this behaviour drives
    \* AbstractAudioPlayer
    events,                 \* _events: deque of (index, MediaEvent)
    audio_diff_avg_count,
    audio_diff_cum,
    \* pyglet.app.platform_event_loop: everything post_event received, in order
    posted,
    \* PlayerWorkerThread.players (one player, named by its backend)
    players,
    \* the source behind the player: bytes it still holds
    source_left,
    \* history: number of clear() calls begun, ids handed to media events,
    \* whether get_audio_data returned None since the last clear(), and
    \* the index of the last event appended since the last clear(), and whether
    \* every append so far had an index no smaller than the one appended before
    \* it since the same clear()
    epoch, next_id, source_none, last_index, append_sorted,
    \* DirectSoundAudioPlayer
    ds_playing, ds_play_cursor_ring, ds_write_cursor_ring,
    ds_write_cursor, ds_play_cursor, ds_eos_cursor, ds_has_underrun,
    \* the DirectSound buffer's play position in its ring, and the write cursor
    \* when the source first returned None
    ds_position, ds_none_cursor,
    \* the bytes the DirectSound buffer has played since the last clear(), and
    \* those of them played since work() last read the buffer's play cursor
    ds_emitted, ds_unread,
    \* where the main thread, the worker thread (inside work()) and the
    \* backend's callback thread are; the ids of the queued events whose index
    \* the play cursor had reached when the worker's running work() began
    main_pc, worker_pc, cb_pc, work_due,
    \* OpenALAudioPlayer
    al_buffer_cursor, al_play_cursor, al_write_cursor, al_source_exhausted,
    al_has_underrun, al_queued_buffer_sizes,
    \* the OpenAL source: its state, how many queued buffers it has processed,
    \* and its byte offset into the buffer it is playing
    al_state, al_processed, al_offset,
    \* PulseAudioPlayer; pa_available and pa_virtual_write_index are the fields of
    \* its _AudioDataBuffer, pa_refill_size the local of _maybe_fill_audio_data_buffer
    pa_source_exhausted, pa_pending_bytes, pa_available, pa_virtual_write_index,
    pa_clear_write, pa_playing, pa_refill_size,
    \* the PulseAudio stream: corked or not, bytes written to it and not yet
    \* played, bytes it has asked for and not yet got, and bytes it has played
    pa_corked, pa_buffered, pa_requested, pa_read_index,
    \* XAudio2AudioPlayer; xa_audio_data and xa_audio_events are the packet that
    \* _refill holds between get_audio_data and taking the lock again
    xa_playing, xa_flush_operation, xa_write_cursor, xa_play_cursor,
    xa_audio_data_in_use, xa_source_exhausted, xa_audio_data, xa_audio_events,
    \* the XAudio2 source voice: started or not, and how many of the queued
    \* buffers a flush is discarding
    xa_voice_playing, xa_flushing, xa_voice_returned,
    \* PreciseStreamingSource: where get_audio_data is, _buffer, _exhausted, and
    \* the locals num_bytes, attempts, cur_attempt_idx and empty_bailout of
    \* get_audio_data; the size last asked of the upstream; the packet returned
    \* and whether it was None
    ps_pc, ps_buffer, ps_exhausted, ps_num_bytes, ps_attempts, ps_cur_attempt_idx,
    ps_empty_bailout, ps_asked, ps_result, ps_result_none,
    \* the upstream source: the length of its stream and its read position
    ps_up_size, ps_up_pos,
    \* whether a get_audio_data since the last seek returned less than asked, and
    \* the count of seeks
    ps_short, ps_seeks,
    \* since construction or the last seek: the packets returned, concatenated;
    \* the upstream position the stream began at; whether the upstream has
    \* answered None
    ps_out, ps_from, ps_up_none,
    \* in the running get_audio_data: the upstream requests made, and how many
    \* of the last answers in a row were empty packets
    ps_turn, ps_empties,
    \* whether the last get_audio_data before the last seek returned None
    ps_revived,
    \* StaticMemorySource: _max_offset, the position of _file, is_player_source;
    \* the packet the last get_audio_data returned and whether it was None; the
    \* exception the last call raised; the offset before the last call; the
    \* acquire() calls that succeeded since the last release()
    ms_max_offset, ms_file_pos, is_player_source, ms_result, ms_result_none,
    ms_raised, ms_prev_pos, ms_holds,
    \* the is_player_source of a PreciseStreamingSource wrapping the
    \* StaticMemorySource, and whether acquire() or release() has been called on
    \* the wrapped source itself, by another owner
    ps_is_player_source, ms_direct,
    \* the sources handed to SourceGroup.add: per source its class, audio_format,
    \* duration and byte count, its is_player_source and its read position
    src_kind, src_format, src_duration, src_size, src_is_player_source, src_pos,
    \* SourceGroup: audio_format, _duration, _timestamp_offset, _sources; the
    \* packet the last get_audio_data returned and whether it was None; the
    \* exception the last call raised
    sg_audio_format, sg_duration, sg_timestamp_offset, sg_sources, sg_result,
    sg_result_none, sg_raised,
    \* the packets the group returned, concatenated; the bytes of the members in
    \* the order they were added; the count of add() calls that succeeded
    sg_out, sg_expected, sg_adds,
    \* PlayerWorkerThread: where run() is; its local sleep_time; _rest_event;
    \* the holder of _operation_lock; _stopped; players; the players the `for`
    \* loop of run() has yet to visit
    wt_pc, wt_sleep_time, wt_rest_event, wt_operation_lock, wt_stopped, wt_players,
    wt_iter,
    \* PlayerWorkerThread as a class: _threads; the holder of _thread_set_lock;
    \* per worker thread, where it is in run(), its _stopped and its _rest_event;
    \* where the main thread is in start(), stop() or atexit(), the worker it
    \* passed, and the threads the `for` loop of atexit() has yet to stop
    ex_threads, ex_thread_set_lock, ex_worker, ex_main,
    \* the locks of PulseAudioPlayer: per thread, where it is in the code that
    \* takes the mainloop lock or _audio_data_lock and the locks it holds, in the
    \* order it took them; the nbytes of the write callback under way
    pl_pc, pl_held, pl_nbytes,
    \* the drift filter on its own: the value the last get_audio_time_diff
    \* returned, and the count of calls since __init__, the last clear() or the
    \* last sample at or beyond AV_NOSYNC_THRESHOLD
    df_ret, df_calls,
    \* per calling thread, where it is in add(), remove() or stop() and the
    \* player it passed; the count of calls begun; per player, the parity of the
    \* count of work() calls the worker made on it; the exception the last
    \* remove() raised
    wt_caller, wt_ops, wt_calls, wt_raised

base_vars == <<events, audio_diff_avg_count, audio_diff_cum, posted, players,
               source_left, epoch, next_id, source_none, last_index, append_sorted>>
ds_vars == <<ds_playing, ds_play_cursor_ring, ds_write_cursor_ring,
             ds_write_cursor, ds_play_cursor, ds_eos_cursor, ds_has_underrun,
             ds_position, ds_none_cursor, ds_emitted, ds_unread>>
\* the variables of the backends other than the one named
thread_vars == <<main_pc, worker_pc, cb_pc, work_due>>
al_vars == <<al_buffer_cursor, al_play_cursor, al_write_cursor, al_source_exhausted,
             al_has_underrun, al_queued_buffer_sizes, al_state, al_processed, al_offset>>
\* the variables of the backends other than the one named
pa_vars == <<pa_source_exhausted, pa_pending_bytes, pa_available, pa_virtual_write_index,
             pa_clear_write, pa_playing, pa_refill_size, pa_corked, pa_buffered,
             pa_requested, pa_read_index>>
ps_vars == <<ps_pc, ps_buffer, ps_exhausted, ps_num_bytes, ps_attempts,
             ps_cur_attempt_idx, ps_empty_bailout, ps_asked, ps_result, ps_result_none,
             ps_up_size, ps_up_pos, ps_short, ps_seeks, ps_out, ps_from, ps_up_none,
             ps_turn, ps_empties, ps_revived>>
xa_vars == <<xa_playing, xa_flush_operation, xa_write_cursor, xa_play_cursor,
             xa_audio_data_in_use, xa_source_exhausted, xa_audio_data, xa_audio_events,
             xa_voice_playing, xa_flushing, xa_voice_returned>>
ms_vars == <<ms_max_offset, ms_file_pos, is_player_source, ms_result, ms_result_none,
             ms_raised, ms_prev_pos, ms_holds, ps_is_player_source, ms_direct>>
sg_vars == <<src_kind, src_format, src_duration, src_size, src_is_player_source, src_pos,
             sg_audio_format, sg_duration, sg_timestamp_offset, sg_sources, sg_result,
             sg_result_none, sg_raised, sg_out, sg_expected, sg_adds>>
ex_vars == <<ex_threads, ex_thread_set_lock, ex_worker, ex_main>>
pl_vars == <<pl_pc, pl_held, pl_nbytes>>
df_vars == <<df_ret, df_calls>>
wt_vars == <<wt_pc, wt_sleep_time, wt_rest_event, wt_operation_lock, wt_stopped,
             wt_players, wt_iter, wt_caller, wt_ops, wt_calls, wt_raised>>
\* the variables of the backends other than the one named
not_base == <<thread_vars, ds_vars, al_vars, pa_vars, xa_vars, ps_vars, ms_vars, sg_vars, wt_vars, ex_vars, pl_vars, df_vars>>
not_ds == <<thread_vars, al_vars, pa_vars, xa_vars, ps_vars, ms_vars, sg_vars, wt_vars, ex_vars, pl_vars, df_vars>>
not_al == <<cb_pc, ds_vars, pa_vars, xa_vars, ps_vars, ms_vars, sg_vars, wt_vars, ex_vars, pl_vars, df_vars>>
not_pa == <<cb_pc, ds_vars, al_vars, xa_vars, ps_vars, ms_vars, sg_vars, wt_vars, ex_vars, pl_vars, df_vars>>
not_xa == <<ds_vars, al_vars, pa_vars, ps_vars, ms_vars, sg_vars, wt_vars, ex_vars, pl_vars, df_vars>>
not_ps == <<thread_vars, ds_vars, al_vars, pa_vars, xa_vars, ms_vars, sg_vars, wt_vars, ex_vars, pl_vars, df_vars>>
\* the variables of the players and of PreciseStreamingSource
not_sources == <<base_vars, thread_vars, ds_vars, al_vars, pa_vars, xa_vars, ps_vars,
                 wt_vars, ex_vars, pl_vars, df_vars>>
\* the variables of the players and of the sources
not_worker == <<base_vars, thread_vars, ds_vars, al_vars, pa_vars, xa_vars, ps_vars,
                ms_vars, sg_vars, ex_vars, pl_vars, df_vars>>
\* the variables of the players, of the sources and of one worker
not_exit == <<base_vars, thread_vars, ds_vars, al_vars, pa_vars, xa_vars, ps_vars,
              ms_vars, sg_vars, wt_vars, pl_vars, df_vars>>
vars == <<backend, base_vars, thread_vars, ds_vars, al_vars, pa_vars, xa_vars, ps_vars,
          ms_vars, sg_vars, wt_vars, ex_vars, pl_vars, df_vars>>

----------------------------------------------------------------------------
(* AbstractAudioPlayer: drift filter *)

AUDIO_DIFF_AVG_NB == 20
AV_NOSYNC_THRESHOLD == 10

\* Differences audio time - master clock, in whole seconds, that a call may see.
DiffSamples == {1}

\* x * audio_diff_avg_coef, the coefficient exp(log10(0.01) / 20) ~ 0.905
\* taken as 9/10 in integer arithmetic.
Decay(x) == (x * 9) \div 10

\* get_audio_time_diff returning the average whatever the count
GetAudioTimeDiffNoWarmup(count, cum, diff) ==
    IF Abs(diff) < AV_NOSYNC_THRESHOLD
    THEN LET cum2 == diff + Decay(cum)
             avg_diff == cum2 - Decay(cum2)
         IN  [count |-> IF count < AUDIO_DIFF_AVG_NB THEN count + 1 ELSE count,
              cum |-> cum2,
              ret |-> IF Abs(avg_diff) * 10 > 1 THEN avg_diff ELSE 0]
    ELSE [count |-> 0, cum |-> 0, ret |-> 0]

\* get_audio_time_diff with diff = audio_time - player.time: the new count
\* and cum, and the value returned.
GetAudioTimeDiff(count, cum, diff) ==
    IF Abs(diff) < AV_NOSYNC_THRESHOLD
    THEN LET cum2 == diff + Decay(cum)
             avg_diff == cum2 - Decay(cum2)
         IN  IF count < AUDIO_DIFF_AVG_NB
             THEN [count |-> count + 1, cum |-> cum2, ret |-> 0]
             ELSE [count |-> count, cum |-> cum2,
                   ret |-> IF Abs(avg_diff) * 10 > 1 THEN avg_diff ELSE 0]
    ELSE [count |-> 0, cum |-> 0, ret |-> 0]

\* The filter on its own (backend = "drift"): any sequence of
\* get_audio_time_diff and clear() calls on a player, with differences on both
\* sides of AV_NOSYNC_THRESHOLD.
DriftSamples == {0 - AV_NOSYNC_THRESHOLD, 0 - 3, 0, 1, 3, AV_NOSYNC_THRESHOLD}

\* Calls of get_audio_time_diff followed between two resets
MaxDriftCalls == 23

DFQuiet ==
    /\ df_ret = 0
    /\ df_calls = 0

\* the variables the filter leaves alone
df_rest == <<backend, events, posted, players, source_left, epoch, next_id, source_none,
             last_index, append_sorted, thread_vars, ds_vars, al_vars, pa_vars, xa_vars,
             ps_vars, ms_vars, sg_vars, wt_vars, ex_vars, pl_vars>>

\* get_audio_time_diff() with audio_time - player.time = diff
DFGetAudioTimeDiff(diff) ==
    /\ backend = "drift"
    /\ df_calls < MaxDriftCalls
    /\ LET d == GetAudioTimeDiff(audio_diff_avg_count, audio_diff_cum, diff)
       IN  /\ audio_diff_avg_count' = d.count
           /\ audio_diff_cum' = d.cum
           /\ df_ret' = d.ret
    /\ df_calls' = IF Abs(diff) < AV_NOSYNC_THRESHOLD THEN df_calls + 1 ELSE 0
    /\ UNCHANGED df_rest

\* AbstractAudioPlayer.clear(), the drift filter's part of it
DFClear ==
    /\ backend = "drift"
    /\ df_calls > 0
    /\ audio_diff_avg_count' = 0
    /\ audio_diff_cum' = 0
    /\ df_calls' = 0
    /\ UNCHANGED <<df_rest, df_ret>>

----------------------------------------------------------------------------
(* AbstractAudioPlayer: media events *)

\* append_events(start_index, events): offsets[i] is timestamp * bytes_per_second
\* of the i-th event; ids and the epoch tag record which event is which.
AppendEvents(q, start_index, offsets, id0, ep) ==
    q \o [i \in 1..Len(offsets) |->
            [index |-> start_index + offsets[i], id |-> id0 + i - 1, ep |-> ep]]

\* The loop of dispatch_media_events with < in the place of <=.
RECURSIVE DispatchCountStrict(_, _)
DispatchCountStrict(q, until_index) ==
    IF q # <<>> /\ Head(q).index < until_index
    THEN 1 + DispatchCountStrict(Tail(q), until_index)
    ELSE 0

\* Number of iterations of the loop of dispatch_media_events(until_index).
RECURSIVE DispatchCount(_, _)
DispatchCount(q, until_index) ==
    IF q # <<>> /\ Head(q).index <= until_index
    THEN 1 + DispatchCount(Tail(q), until_index)
    ELSE 0

\* MediaEvent.sync_dispatch_to_player: what post_event receives.
PostMedia(e, at) == [event |-> "media", index |-> e.index, id |-> e.id, ep |-> e.ep, at |-> at]
PostEos(at) == [event |-> "on_eos", index |-> None, id |-> 0, ep |-> at, at |-> at]

\* dispatch_media_events(until_index): the events posted and the queue left.
DispatchPosted(q, until_index, at) ==
    [i \in 1..DispatchCount(q, until_index) |-> PostMedia(q[i], at)]
\* A dispatch that posts without popping.
DispatchRestKept(q, until_index) == q
DispatchRest(q, until_index) ==
    SubSeq(q, DispatchCount(q, until_index) + 1, Len(q))

\* The ids of the queued events whose index the cursor `until` has reached.
DueIds(q, until) == {q[i].id : i \in {j \in DOMAIN q : q[j].index <= until}}

\* History of append_events(start_index, events): the last index appended, and
\* whether the indices appended so far were nondecreasing.
LastAppended(last, start_index, offsets) ==
    IF offsets = <<>> THEN last ELSE start_index + offsets[Len(offsets)]
KeepsSorted(last, start_index, offsets) ==
    /\ offsets # <<>> /\ last # None => last <= start_index + offsets[1]
    /\ \A i \in 1..(Len(offsets) - 1) : offsets[i] <= offsets[i + 1]

----------------------------------------------------------------------------
(* The source handed to the player: precise (Source.is_precise), so a request *)
(* of n bytes returns min(n, left) bytes, and None once nothing is left.      *)

\* Lengths of the stream behind the player: empty, one frame, or the longest.
SourceSizes == {0, bytes_per_frame, MaxSrcFrames * bytes_per_frame}

\* Length of the packet get_audio_data(num_bytes) returns, None for no packet.
SourceGet(left, num_bytes) ==
    IF left = 0 THEN None ELSE Min(num_bytes, left)

\* Event lists the packet of `length` bytes taken from a source holding `left`
\* bytes may carry: the last packet of the stream has one event, timestamped at
\* its start, or none; the other packets have none.
PacketEvents(length, left) ==
    IF length # None /\ length = left
    THEN {<<>>, <<0>>}
    ELSE {<<>>}

\* What the source may hold once the application is done with a clear(): it is
\* left where it was, or it was rewound or replaced (Player.seek, set_source)
\* and holds a full-length stream again.
AfterClear(left) == {left, MaxSrcFrames * bytes_per_frame}

----------------------------------------------------------------------------
(* backend = "base": AbstractAudioPlayer under arbitrary calls *)

BaseIndices == 0..3

BaseQuiet ==
    /\ events = <<>>
    /\ audio_diff_avg_count = 0
    /\ audio_diff_cum = 0
    /\ posted = <<>>
    /\ players = {}
    /\ epoch = 0
    /\ next_id = 1
    /\ source_none = FALSE
    /\ last_index = None
    /\ append_sorted = TRUE

ThreadsQuiet ==
    /\ main_pc = "idle"
    /\ worker_pc = "idle"
    /\ cb_pc = "idle"
    /\ work_due = {}

\* append_events(start_index, events) with one or two events
BaseAppendEvents(start_index, offsets) ==
    /\ backend = "base"
    /\ next_id + Len(offsets) - 1 <= MaxEvents
    /\ events' = AppendEvents(events, start_index, offsets, next_id, epoch)
    /\ next_id' = next_id + Len(offsets)
    /\ last_index' = LastAppended(last_index, start_index, offsets)
    /\ append_sorted' = (append_sorted /\ KeepsSorted(last_index, start_index, offsets))
    /\ UNCHANGED <<backend, audio_diff_avg_count, audio_diff_cum, posted, players,
                   source_left, epoch, source_none, not_base>>

\* dispatch_media_events(until_index)
BaseDispatchMediaEvents(until_index) ==
    /\ backend = "base"
    /\ posted' = posted \o DispatchPosted(events, until_index, epoch)
    /\ events' = DispatchRest(events, until_index)
    /\ UNCHANGED <<backend, audio_diff_avg_count, audio_diff_cum, players,
                   source_left, epoch, next_id, source_none, last_index,
                   append_sorted, not_base>>

\* AbstractAudioPlayer.clear()
BaseClear ==
    /\ backend = "base"
    /\ epoch < MaxClears
    /\ events' = <<>>
    /\ audio_diff_avg_count' = 0
    /\ audio_diff_cum' = 0
    /\ epoch' = epoch + 1
    /\ last_index' = None
    /\ UNCHANGED <<backend, posted, players, source_left, next_id, source_none,
                   append_sorted, not_base>>

----------------------------------------------------------------------------
(* DirectSoundAudioPlayer *)

\* self._ds_buffer.buffer_size, in bytes: a ring of six frames
ds_buffer_size == 6 * bytes_per_frame
\* (self._buffer_size // 3) & 0xFFFFFFFE
ds_tolerable_empty_space == (ds_buffer_size \div 3) - ((ds_buffer_size \div 3) % 2)

DSQuiet ==
    /\ ds_playing = FALSE
    /\ ds_play_cursor_ring = 0
    /\ ds_write_cursor_ring = 0
    /\ ds_write_cursor = 0
    /\ ds_play_cursor = 0
    /\ ds_eos_cursor = None
    /\ ds_has_underrun = FALSE
    /\ ds_position = 0
    /\ ds_emitted = 0
    /\ ds_unread = 0
    /\ ds_none_cursor = None

\* write(audio_data, length) on the cursors c = [w, ring]
DSWrite(c, length) ==
    IF length = 0 THEN c
    ELSE [c EXCEPT !.w = c.w + length,
                   !.ring = (c.ring + length) % ds_buffer_size]

\* _refill(size) on s = [w, ring, eos, q, nid, count, cum, left, none, none_at, ep,
\* last, sorted] (see DSState),
\* with the master clock difference and the packet's events as inputs.
DSRefill(s, size, diff, offsets) ==
    LET d == GetAudioTimeDiff(s.count, s.cum, diff)
        length == SourceGet(s.left, size)
        rlen == IF length = None THEN 0 ELSE length
        s1 == [s EXCEPT !.count = d.count, !.cum = d.cum]
        s2 == IF length = None
              THEN [s1 EXCEPT !.eos = IF s.eos = None THEN s.w ELSE s.eos,
                              !.none = TRUE,
                              !.none_at = IF s.none THEN s.none_at ELSE s.w]
              ELSE LET c == DSWrite([w |-> s.w, ring |-> s.ring], length)
                   IN  [s1 EXCEPT !.q = AppendEvents(s.q, s.w, offsets, s.nid, s.ep),
                                  !.nid = s.nid + Len(offsets),
                                  !.last = LastAppended(s.last, s.w, offsets),
                                  !.sorted = s.sorted /\ KeepsSorted(s.last, s.w, offsets),
                                  !.left = s.left - length,
                                  !.w = c.w, !.ring = c.ring]
        c3 == IF rlen < size
              THEN DSWrite([w |-> s2.w, ring |-> s2.ring], size - rlen)
              ELSE [w |-> s2.w, ring |-> s2.ring]
    IN  [s2 EXCEPT !.w = c3.w, !.ring = c3.ring]

\* _update_play_cursor(): the new _play_cursor for ring position play_cursor_ring
DSUpdatePlayCursor(play_cursor, prev_ring, play_cursor_ring) ==
    IF play_cursor_ring < prev_ring
    THEN play_cursor + (ds_buffer_size - prev_ring) + play_cursor_ring
    ELSE play_cursor + (play_cursor_ring - prev_ring)

\* work(): the test that guards the on_eos post once _eos_cursor is set,
\* and the same test without its duplicate protection
DSShouldPostEosUnguarded(has_underrun, play_cursor, eos_cursor) ==
    play_cursor > eos_cursor
DSShouldPostEos(has_underrun, play_cursor, eos_cursor) ==
    ~has_underrun /\ play_cursor > eos_cursor

\* _get_empty_buffer_space()
DSGetEmptyBufferSpace(write_cursor, play_cursor) ==
    ds_buffer_size - Max(write_cursor - play_cursor, 0)

\* The fields _refill reads and writes, before __init__ has run _refill.
DSFresh(left) ==
    [w |-> 0, ring |-> 0, eos |-> None, q |-> <<>>, nid |-> 1, count |-> 0,
     cum |-> 0, left |-> left, none |-> FALSE, none_at |-> None, ep |-> 0,
     last |-> None, sorted |-> TRUE]

DSState ==
    [w |-> ds_write_cursor, ring |-> ds_write_cursor_ring, eos |-> ds_eos_cursor,
     q |-> events, nid |-> next_id, count |-> audio_diff_avg_count,
     cum |-> audio_diff_cum, left |-> source_left, none |-> source_none,
     none_at |-> ds_none_cursor, ep |-> epoch, last |-> last_index,
     sorted |-> append_sorted]

\* _maybe_fill() from the cursors and queue in s, with the play cursor given
DSMaybeFill(s, play_cursor, diff, offsets) ==
    LET empty == DSGetEmptyBufferSpace(s.w, play_cursor)
    IN  IF empty > ds_tolerable_empty_space
        THEN DSRefill(s, empty, diff, offsets)
        ELSE s

\* The packet _maybe_fill would get from the source, None if it asks for none.
DSNextPacket(play_cursor) ==
    LET empty == DSGetEmptyBufferSpace(ds_write_cursor, play_cursor)
    IN  IF empty > ds_tolerable_empty_space
        THEN SourceGet(source_left, empty)
        ELSE None

\* Primed values of what _refill and write change, from the record r.
DSStore(r) ==
    /\ ds_write_cursor' = r.w
    /\ ds_write_cursor_ring' = r.ring
    /\ ds_eos_cursor' = r.eos
    /\ next_id' = r.nid
    /\ audio_diff_avg_count' = r.count
    /\ audio_diff_cum' = r.cum
    /\ source_left' = r.left
    /\ source_none' = r.none
    /\ ds_none_cursor' = r.none_at
    /\ last_index' = r.last
    /\ append_sorted' = r.sorted

\* play()
DSPlay ==
    /\ backend = "ds"
    /\ ds_playing' = TRUE
    /\ players' = players \cup {"ds"}
    /\ UNCHANGED <<backend, events, audio_diff_avg_count, audio_diff_cum, posted,
                   source_left, epoch, next_id, source_none, last_index, append_sorted,
                   ds_play_cursor_ring, ds_write_cursor_ring, ds_write_cursor,
                   ds_play_cursor, ds_eos_cursor, ds_has_underrun, ds_position,
                   ds_emitted, ds_unread, ds_none_cursor, not_ds>>

\* stop()
DSStop ==
    /\ backend = "ds"
    /\ players' = players \ {"ds"}
    /\ ds_playing' = FALSE
    /\ UNCHANGED <<backend, events, audio_diff_avg_count, audio_diff_cum, posted,
                   source_left, epoch, next_id, source_none, last_index, append_sorted,
                   ds_play_cursor_ring, ds_write_cursor_ring, ds_write_cursor,
                   ds_play_cursor, ds_eos_cursor, ds_has_underrun, ds_position,
                   ds_emitted, ds_unread, ds_none_cursor, not_ds>>

\* clear(), which the player must be stopped for; the source is then as
\* AfterClear says.
DSClear(left) ==
    /\ backend = "ds"
    /\ ~ds_playing
    /\ epoch < MaxClears
    /\ events' = <<>>
    /\ audio_diff_avg_count' = 0
    /\ audio_diff_cum' = 0
    /\ ds_position' = 0
    /\ ds_emitted' = 0
    /\ ds_unread' = 0
    /\ ds_play_cursor_ring' = 0
    /\ ds_write_cursor_ring' = 0
    /\ ds_play_cursor' = ds_write_cursor
    /\ ds_eos_cursor' = None
    /\ ds_has_underrun' = FALSE
    /\ epoch' = epoch + 1
    /\ source_none' = FALSE
    /\ ds_none_cursor' = None
    /\ last_index' = None
    /\ source_left' = left
    /\ UNCHANGED <<backend, posted, players, next_id, append_sorted, ds_playing,
                   ds_write_cursor, not_ds>>

\* work(), called by the worker thread on a player of its set
DSWork ==
    /\ backend = "ds"
    /\ "ds" \in players
    /\ LET play_cursor == DSUpdatePlayCursor(ds_play_cursor, ds_play_cursor_ring, ds_position)
           rest == DispatchRest(events, play_cursor)
           media == DispatchPosted(events, play_cursor, epoch)
           s == [DSState EXCEPT !.q = rest]
       IN  /\ ds_play_cursor' = play_cursor
           /\ ds_play_cursor_ring' = ds_position
           /\ ds_unread' = 0
           /\ IF ds_eos_cursor # None
              THEN LET eos == DSShouldPostEos(ds_has_underrun, play_cursor, ds_eos_cursor)
                       empty == DSGetEmptyBufferSpace(ds_write_cursor, play_cursor)
                       c == IF empty > ds_tolerable_empty_space
                            THEN DSWrite([w |-> s.w, ring |-> s.ring], empty)
                            ELSE [w |-> s.w, ring |-> s.ring]
                   IN  /\ ds_has_underrun' = (ds_has_underrun \/ eos)
                       /\ posted' = IF eos THEN (posted \o media) \o <<PostEos(epoch)>>
                                    ELSE posted \o media
                       /\ events' = rest
                       /\ DSStore([s EXCEPT !.w = c.w, !.ring = c.ring])
              ELSE \E diff \in DiffSamples :
                     \E offsets \in PacketEvents(DSNextPacket(play_cursor), source_left) :
                       LET r == DSMaybeFill(s, play_cursor, diff, offsets)
                       IN  /\ ds_has_underrun' = ds_has_underrun
                           /\ posted' = posted \o media
                           /\ events' = r.q
                           /\ DSStore(r)
    /\ UNCHANGED <<backend, players, epoch, ds_playing, ds_position, ds_emitted, not_ds>>

\* prefill_audio(), called by the application before the player is started
DSPrefillAudio ==
    /\ backend = "ds"
    /\ ~ds_playing
    /\ "ds" \notin players
    /\ \E diff \in DiffSamples :
         \E offsets \in PacketEvents(DSNextPacket(ds_play_cursor), source_left) :
           LET r == DSMaybeFill(DSState, ds_play_cursor, diff, offsets)
           IN  /\ events' = r.q
               /\ DSStore(r)
    /\ UNCHANGED <<backend, posted, players, epoch, ds_playing, ds_play_cursor_ring,
                   ds_play_cursor, ds_has_underrun, ds_position, ds_emitted, ds_unread,
                   not_ds>>

\* The DirectSound buffer plays `bytes` more bytes of its ring.
DSDevicePlays(bytes) ==
    /\ backend = "ds"
    /\ ds_playing
    /\ DSUpdatePlayCursor(ds_play_cursor, ds_play_cursor_ring, ds_position) + bytes
         <= MaxEmitFrames * bytes_per_frame
    /\ ds_emitted + bytes <= MaxEmitFrames * bytes_per_frame
    /\ ds_position' = (ds_position + bytes) % ds_buffer_size
    /\ ds_emitted' = ds_emitted + bytes
    /\ ds_unread' = ds_unread + bytes
    /\ UNCHANGED <<backend, base_vars, ds_playing, ds_play_cursor_ring,
                   ds_write_cursor_ring, ds_write_cursor, ds_play_cursor,
                   ds_eos_cursor, ds_has_underrun, ds_none_cursor, not_ds>>

----------------------------------------------------------------------------
(* OpenALAudioPlayer *)

\* fmt.align(int(fmt.bytes_per_second * 0.5))
al_ideal_buffer_size == align(bytes_per_second \div 2)
\* seconds of unplayed data below which more is asked for
COMFORTABLE_BUFFER_LIMIT == 1

\* State after OpenALAudioPlayer.__init__
ALQuiet ==
    /\ al_buffer_cursor = 0
    /\ al_play_cursor = 0
    /\ al_write_cursor = 0
    /\ al_source_exhausted = FALSE
    /\ al_has_underrun = FALSE
    /\ al_queued_buffer_sizes = <<>>
    /\ al_state = "initial"
    /\ al_processed = 0
    /\ al_offset = 0

RECURSIVE SumFirst(_, _)
SumFirst(sizes, n) == IF n = 0 THEN 0 ELSE sizes[n] + SumFirst(sizes, n - 1)

\* alsource.is_playing
ALIsPlaying == al_state = "playing"

\* alsource.play() on a source that is not playing, with nqueued buffers queued:
\* a paused source resumes, any other starts at the head of its queue.
ALSourcePlay(state, processed, offset, nqueued) ==
    IF state = "paused"
    THEN [state |-> "playing", processed |-> processed, offset |-> offset]
    ELSE [state |-> IF nqueued > 0 THEN "playing" ELSE "stopped",
          processed |-> 0, offset |-> 0]

\* alsource.byte_offset once the processed buffers are unqueued
ALByteOffset == IF al_state \in {"playing", "paused"} THEN al_offset ELSE 0

\* work(): the test that guards the on_eos post once the source is exhausted,
\* and the same test without the look at the OpenAL source
ALShouldPostEosUnchecked(has_underrun, is_playing) ==
    ~has_underrun
ALShouldPostEos(has_underrun, is_playing) ==
    ~has_underrun /\ ~is_playing

\* _should_refill()
ALShouldRefill(exhausted, write_cursor, play_cursor) ==
    /\ ~exhausted
    /\ write_cursor - play_cursor < bytes_per_second * COMFORTABLE_BUFFER_LIMIT

\* play()
ALPlay ==
    /\ backend = "al"
    /\ main_pc = "idle"
    /\ worker_pc = "idle"
    /\ LET a == IF ALIsPlaying
                THEN [state |-> al_state, processed |-> al_processed, offset |-> al_offset]
                ELSE ALSourcePlay(al_state, al_processed, al_offset,
                                  Len(al_queued_buffer_sizes))
       IN  /\ al_state' = a.state
           /\ al_processed' = a.processed
           /\ al_offset' = a.offset
    /\ players' = players \cup {"al"}
    /\ UNCHANGED <<backend, events, audio_diff_avg_count, audio_diff_cum, posted,
                   source_left, epoch, next_id, source_none, last_index, append_sorted,
                   main_pc, worker_pc, work_due, al_buffer_cursor, al_play_cursor, al_write_cursor,
                   al_source_exhausted, al_has_underrun, al_queued_buffer_sizes, not_al>>

\* stop()
ALStop ==
    /\ backend = "al"
    /\ main_pc = "idle"
    /\ worker_pc = "idle"
    /\ players' = players \ {"al"}
    /\ al_state' = IF al_state = "playing" THEN "paused" ELSE al_state
    /\ UNCHANGED <<backend, events, audio_diff_avg_count, audio_diff_cum, posted,
                   source_left, epoch, next_id, source_none, last_index, append_sorted,
                   main_pc, worker_pc, work_due, al_buffer_cursor, al_play_cursor, al_write_cursor,
                   al_source_exhausted, al_has_underrun, al_queued_buffer_sizes,
                   al_processed, al_offset, not_al>>

\* clear(), which the player must be stopped for; the source is then as
\* AfterClear says.
ALClear(left) ==
    /\ backend = "al"
    /\ main_pc = "idle"
    /\ worker_pc = "idle"
    /\ "al" \notin players
    /\ epoch < MaxClears
    /\ events' = <<>>
    /\ audio_diff_avg_count' = 0
    /\ audio_diff_cum' = 0
    /\ al_state' = IF al_state = "initial" THEN "initial" ELSE "stopped"
    /\ al_processed' = 0
    /\ al_offset' = 0
    /\ al_buffer_cursor' = 0
    /\ al_play_cursor' = 0
    /\ al_write_cursor' = 0
    /\ al_source_exhausted' = FALSE
    /\ al_has_underrun' = FALSE
    /\ al_queued_buffer_sizes' = <<>>
    /\ epoch' = epoch + 1
    /\ source_none' = FALSE
    /\ last_index' = None
    /\ source_left' = left
    /\ UNCHANGED <<backend, posted, players, next_id, append_sorted,
                   main_pc, worker_pc, work_due, not_al>>

\* work() up to its loop: _check_processed_buffers, _update_play_cursor,
\* dispatch_media_events, then on_eos or the first test of _should_refill
ALWork ==
    /\ backend = "al"
    /\ main_pc = "idle"
    /\ worker_pc = "idle"
    /\ "al" \in players
    /\ LET buffer_cursor == al_buffer_cursor + SumFirst(al_queued_buffer_sizes, al_processed)
           play_cursor == buffer_cursor + ALByteOffset
           eos == al_source_exhausted /\ ALShouldPostEos(al_has_underrun, ALIsPlaying)
           media == DispatchPosted(events, play_cursor, epoch)
       IN  /\ al_buffer_cursor' = buffer_cursor
           /\ al_queued_buffer_sizes' =
                SubSeq(al_queued_buffer_sizes, al_processed + 1, Len(al_queued_buffer_sizes))
           /\ al_processed' = 0
           /\ al_play_cursor' = play_cursor
           /\ events' = DispatchRest(events, play_cursor)
           /\ posted' = IF eos THEN (posted \o media) \o <<PostEos(epoch)>>
                        ELSE posted \o media
           /\ al_has_underrun' = (al_has_underrun \/ eos)
           /\ worker_pc' = IF ALShouldRefill(al_source_exhausted, al_write_cursor, play_cursor)
                           THEN "refill" ELSE "idle"
           /\ work_due' = IF ALShouldRefill(al_source_exhausted, al_write_cursor, play_cursor)
                          THEN DueIds(events, al_play_cursor) ELSE {}
    /\ UNCHANGED <<backend, audio_diff_avg_count, audio_diff_cum, players, source_left,
                   epoch, next_id, source_none, last_index, append_sorted, main_pc,
                   al_write_cursor, al_source_exhausted, al_state, al_offset, not_al>>

\* prefill_audio(), called by the application before the player is started:
\* the first test of _should_refill
ALPrefillAudio ==
    /\ backend = "al"
    /\ main_pc = "idle"
    /\ worker_pc = "idle"
    /\ "al" \notin players
    /\ ~ALIsPlaying
    /\ ALShouldRefill(al_source_exhausted, al_write_cursor, al_play_cursor)
    /\ main_pc' = "work"
    /\ worker_pc' = "refill"
    /\ UNCHANGED <<backend, base_vars, work_due, al_vars, not_al>>

\* One turn of `while self._should_refill(): self._refill()` in work() or
\* prefill_audio(), and what follows the loop when this turn was its last.
ALRefill ==
    /\ backend = "al"
    /\ worker_pc = "refill"
    /\ LET length == SourceGet(source_left, al_ideal_buffer_size)
           write_cursor == IF length = None THEN al_write_cursor
                           ELSE al_write_cursor + length
           sizes == IF length = None THEN al_queued_buffer_sizes
                    ELSE Append(al_queued_buffer_sizes, length)
           again == ALShouldRefill(length = None, write_cursor, al_play_cursor)
           restart == ~again /\ main_pc # "work" /\ ~ALIsPlaying
           a == IF restart
                THEN ALSourcePlay(al_state, al_processed, al_offset, Len(sizes))
                ELSE [state |-> al_state, processed |-> al_processed, offset |-> al_offset]
       IN  /\ \E diff \in DiffSamples :
                LET d == GetAudioTimeDiff(audio_diff_avg_count, audio_diff_cum, diff)
                IN  /\ audio_diff_avg_count' = d.count
                    /\ audio_diff_cum' = d.cum
           /\ \E offsets \in PacketEvents(length, source_left) :
                /\ events' = AppendEvents(events, al_write_cursor, offsets, next_id, epoch)
                /\ next_id' = next_id + Len(offsets)
                /\ last_index' = LastAppended(last_index, al_write_cursor, offsets)
                /\ append_sorted' =
                     (append_sorted /\ KeepsSorted(last_index, al_write_cursor, offsets))
           /\ al_source_exhausted' = (length = None)
           /\ source_none' = (source_none \/ length = None)
           /\ source_left' = IF length = None THEN source_left ELSE source_left - length
           /\ al_write_cursor' = write_cursor
           /\ al_queued_buffer_sizes' = sizes
           /\ al_state' = a.state
           /\ al_processed' = a.processed
           /\ al_offset' = a.offset
           /\ worker_pc' = IF again THEN "refill" ELSE "idle"
           /\ work_due' = IF again THEN work_due ELSE {}
           /\ main_pc' = IF again THEN main_pc ELSE "idle"
    /\ UNCHANGED <<backend, posted, players, epoch, al_buffer_cursor, al_play_cursor,
                   al_has_underrun, not_al>>

\* The OpenAL source plays `bytes` more bytes of the buffer it is in; a buffer
\* played to its end is processed, and the source stops after its last one.
ALDevicePlays(bytes) ==
    /\ backend = "al"
    /\ ALIsPlaying
    /\ al_processed < Len(al_queued_buffer_sizes)
    /\ LET size == al_queued_buffer_sizes[al_processed + 1]
       IN  /\ al_offset + bytes <= size
           /\ IF al_offset + bytes < size
              THEN /\ al_offset' = al_offset + bytes
                   /\ UNCHANGED <<al_processed, al_state>>
              ELSE /\ al_offset' = 0
                   /\ al_processed' = al_processed + 1
                   /\ al_state' = IF al_processed + 1 = Len(al_queued_buffer_sizes)
                                  THEN "stopped" ELSE "playing"
    /\ UNCHANGED <<backend, base_vars, main_pc, worker_pc, work_due, al_buffer_cursor,
                   al_play_cursor, al_write_cursor, al_source_exhausted, al_has_underrun,
                   al_queued_buffer_sizes, not_al>>

----------------------------------------------------------------------------
(* PulseAudioPlayer *)

\* _AudioDataBuffer.ideal_size and comfortable_limit
pa_ideal_size == align((bytes_per_second * 3) \div 2)
pa_comfortable_limit == align(bytes_per_second)
\* bytes the stream wants buffered on the server
pa_tlength == bytes_per_second

\* State after PulseAudioPlayer.__init__; the stream is connected corked.
PAQuiet ==
    /\ pa_source_exhausted = FALSE
    /\ pa_pending_bytes = 0
    /\ pa_available = 0
    /\ pa_virtual_write_index = 0
    /\ pa_clear_write = FALSE
    /\ pa_playing = FALSE
    /\ pa_refill_size = 0
    /\ pa_corked = TRUE
    /\ pa_buffered = 0
    /\ pa_requested = 0
    /\ pa_read_index = 0

\* _AudioDataBuffer.get_ideal_refill_size(virtual_required)
PAGetIdealRefillSize(available, virtual_required) ==
    LET virtual_available == available - virtual_required
    IN  IF virtual_available < pa_comfortable_limit
        THEN pa_ideal_size - virtual_available
        ELSE 0

\* _AudioDataBuffer.memmove(target_pointer, num_bytes): the bytes moved
PAMemmove(available, num_bytes) == Min(num_bytes, available)

\* The buffer, pending count and stream the write paths work on.
PAState ==
    [available |-> pa_available, pending |-> pa_pending_bytes,
     clear_write |-> pa_clear_write, buffered |-> pa_buffered,
     requested |-> pa_requested, written |-> 0]

\* _write_to_stream(nbytes) on t (see PAState); t.written is its return value.
\* A write in seek mode PA_SEEK_RELATIVE_ON_READ lands at the read index and
\* so replaces what the stream still held.
PAWriteToStream(t, nbytes) ==
    LET bytes_written == PAMemmove(t.available, nbytes)
    IN  IF bytes_written = 0
        THEN [t EXCEPT !.written = 0]
        ELSE [t EXCEPT !.written = bytes_written,
                       !.available = t.available - bytes_written,
                       !.buffered = IF t.clear_write THEN bytes_written
                                    ELSE t.buffered + bytes_written,
                       !.requested = Max(t.requested - bytes_written, 0),
                       !.clear_write = FALSE]

\* _maybe_write_pending()
PAMaybeWritePending(t) ==
    IF t.pending > 0 /\ t.available > 0
    THEN LET u == PAWriteToStream(t, t.pending)
         IN  [u EXCEPT !.pending = t.pending - u.written]
    ELSE t

PAStore(t) ==
    /\ pa_available' = t.available
    /\ pa_pending_bytes' = t.pending
    /\ pa_clear_write' = t.clear_write
    /\ pa_buffered' = t.buffered
    /\ pa_requested' = t.requested

\* play()
PAPlay ==
    /\ backend = "pa"
    /\ main_pc = "idle"
    /\ worker_pc = "idle"
    /\ pa_corked' = FALSE
    /\ players' = players \cup {"pa"}
    /\ pa_playing' = TRUE
    /\ UNCHANGED <<backend, events, audio_diff_avg_count, audio_diff_cum, posted,
                   source_left, epoch, next_id, source_none, last_index, append_sorted,
                   main_pc, worker_pc, work_due, pa_source_exhausted, pa_pending_bytes,
                   pa_available, pa_virtual_write_index, pa_clear_write, pa_refill_size,
                   pa_buffered, pa_requested, pa_read_index, not_pa>>

\* stop()
PAStop ==
    /\ backend = "pa"
    /\ main_pc = "idle"
    /\ worker_pc = "idle"
    /\ players' = players \ {"pa"}
    /\ pa_corked' = TRUE
    /\ pa_playing' = FALSE
    /\ UNCHANGED <<backend, events, audio_diff_avg_count, audio_diff_cum, posted,
                   source_left, epoch, next_id, source_none, last_index, append_sorted,
                   main_pc, worker_pc, work_due, pa_source_exhausted, pa_pending_bytes,
                   pa_available, pa_virtual_write_index, pa_clear_write, pa_refill_size,
                   pa_buffered, pa_requested, pa_read_index, not_pa>>

\* clear(), which the player must be stopped for; the source is then as
\* AfterClear says.
PAClear(left) ==
    /\ backend = "pa"
    /\ main_pc = "idle"
    /\ worker_pc = "idle"
    /\ ~pa_playing
    /\ "pa" \notin players
    /\ epoch < MaxClears
    /\ events' = <<>>
    /\ audio_diff_avg_count' = 0
    /\ audio_diff_cum' = 0
    /\ pa_clear_write' = TRUE
    /\ pa_source_exhausted' = FALSE
    /\ pa_available' = 0
    /\ pa_virtual_write_index' = 0
    /\ epoch' = epoch + 1
    /\ source_none' = FALSE
    /\ last_index' = None
    /\ source_left' = left
    /\ UNCHANGED <<backend, posted, players, next_id, append_sorted, main_pc, worker_pc, work_due,
                   pa_pending_bytes, pa_playing, pa_refill_size, pa_corked, pa_buffered,
                   pa_requested, pa_read_index, not_pa>>

\* work(), by the worker thread or through prefill_audio() before the player is
\* started: _maybe_write_pending and _maybe_fill_audio_data_buffer up to its
\* call of get_audio_data; when the buffer asks for no data, the rest of work().
PAWork ==
    /\ backend = "pa"
    /\ main_pc = "idle"
    /\ worker_pc = "idle"
    /\ "pa" \in players \/ ~pa_playing
    /\ LET t == PAMaybeWritePending(PAState)
           refill_size == IF pa_source_exhausted THEN 0
                          ELSE PAGetIdealRefillSize(t.available, t.pending)
       IN  IF refill_size = 0
           THEN /\ PAStore(PAMaybeWritePending(t))
                /\ UNCHANGED <<pa_refill_size, worker_pc, work_due, main_pc>>
           ELSE /\ PAStore(t)
                /\ pa_refill_size' = align(refill_size)
                /\ worker_pc' = "get"
                /\ work_due' = IF "pa" \in players THEN DueIds(events, pa_read_index)
                               ELSE {}
                /\ main_pc' = IF "pa" \in players THEN "idle" ELSE "work"
    /\ UNCHANGED <<backend, base_vars, pa_source_exhausted, pa_virtual_write_index,
                   pa_playing, pa_corked, pa_read_index, not_pa>>

\* The rest of work(): get_audio_data returns, the packet is added to the
\* buffer and its events queued, then _maybe_write_pending.
PAFill ==
    /\ backend = "pa"
    /\ worker_pc = "get"
    /\ LET length == SourceGet(source_left, pa_refill_size)
           rlen == IF length = None THEN 0 ELSE length
           virtual_write_index == pa_virtual_write_index + rlen
       IN  /\ pa_source_exhausted' = (length = None)
           /\ source_none' = (source_none \/ length = None)
           /\ source_left' = source_left - rlen
           /\ pa_virtual_write_index' = virtual_write_index
           /\ \E offsets \in PacketEvents(length, source_left) :
                /\ events' = AppendEvents(events, virtual_write_index, offsets, next_id, epoch)
                /\ next_id' = next_id + Len(offsets)
                /\ last_index' = LastAppended(last_index, virtual_write_index, offsets)
                /\ append_sorted' =
                     (append_sorted /\ KeepsSorted(last_index, virtual_write_index, offsets))
           /\ PAStore(PAMaybeWritePending(
                        [PAState EXCEPT !.available = pa_available + rlen]))
    /\ worker_pc' = "idle"
    /\ work_due' = {}
    /\ main_pc' = "idle"
    /\ UNCHANGED <<backend, audio_diff_avg_count, audio_diff_cum, posted, players, epoch,
                   pa_playing, pa_refill_size, pa_corked, pa_read_index,
                   not_pa>>

\* _write_callback(nbytes), from the PulseAudio thread: the stream asks for
\* what it lacks to hold pa_tlength bytes
PAWriteCallback(nbytes) ==
    /\ backend = "pa"
    /\ nbytes > 0
    /\ pa_buffered + pa_requested + nbytes = pa_tlength
    /\ LET t == [PAState EXCEPT !.requested = pa_requested + nbytes]
           u == PAWriteToStream(t, nbytes)
           unfulfilled == nbytes - u.written
       IN  IF pa_available > 0
           THEN PAStore([u EXCEPT !.pending = IF unfulfilled > 0 THEN unfulfilled
                                             ELSE t.pending])
           ELSE PAStore([t EXCEPT !.pending = nbytes])
    /\ UNCHANGED <<backend, base_vars, thread_vars, pa_source_exhausted,
                   pa_virtual_write_index, pa_playing, pa_refill_size, pa_corked,
                   pa_read_index, ds_vars, al_vars, xa_vars, ps_vars, ms_vars, sg_vars, wt_vars, ex_vars, pl_vars, df_vars>>

\* _underflow_callback(), from the PulseAudio thread: the running stream has
\* nothing left to play
PAUnderflowCallback ==
    /\ backend = "pa"
    /\ ~pa_corked
    /\ pa_buffered = 0
    /\ Len(posted) < MaxUnderflows
    /\ posted' = IF pa_source_exhausted /\ pa_available = 0
                 THEN Append(posted, PostEos(epoch))
                 ELSE posted
    /\ UNCHANGED <<backend, events, audio_diff_avg_count, audio_diff_cum, players,
                   source_left, epoch, next_id, source_none, last_index, append_sorted,
                   thread_vars, pa_source_exhausted, pa_pending_bytes, pa_available,
                   pa_virtual_write_index, pa_clear_write, pa_playing, pa_refill_size,
                   pa_corked, pa_buffered, pa_requested, pa_read_index, ds_vars, al_vars, xa_vars, ps_vars, ms_vars, sg_vars, wt_vars, ex_vars, pl_vars, df_vars>>

\* The running stream plays `bytes` of what was written to it.
PADevicePlays(bytes) ==
    /\ backend = "pa"
    /\ ~pa_corked
    /\ bytes <= pa_buffered
    /\ pa_read_index + bytes <= MaxReadFrames * bytes_per_frame
    /\ pa_buffered' = pa_buffered - bytes
    /\ pa_read_index' = pa_read_index + bytes
    /\ UNCHANGED <<backend, base_vars, thread_vars, pa_source_exhausted, pa_pending_bytes,
                   pa_available, pa_virtual_write_index, pa_clear_write, pa_playing,
                   pa_refill_size, pa_corked, pa_requested, ds_vars, al_vars, xa_vars, ps_vars, ms_vars, sg_vars, wt_vars, ex_vars, pl_vars, df_vars>>

----------------------------------------------------------------------------
(* XAudio2AudioPlayer *)

FLUSH == 0
FLUSH_THEN_DELETE == 1
max_buffer_count == 3
\* self.source.audio_format.align(int(bytes_per_second * 0.5))
xa_buffer_size == align(bytes_per_second \div 2)

\* State after XAudio2AudioPlayer.__init__
XAQuiet ==
    /\ xa_playing = FALSE
    /\ xa_flush_operation = None
    /\ xa_write_cursor = 0
    /\ xa_play_cursor = 0
    /\ xa_audio_data_in_use = <<>>
    /\ xa_source_exhausted = FALSE
    /\ xa_audio_data = None
    /\ xa_audio_events = <<>>
    /\ xa_voice_playing = FALSE
    /\ xa_flushing = 0
    /\ xa_voice_returned = 0

\* self._lock with a _refill that keeps it while get_audio_data runs
XALockKept == cb_pc = "idle" /\ main_pc # "delete_stop_remove" /\ worker_pc # "get"

\* self._lock is held from one step to the next by the callback thread while
\* on_buffer_end waits inside worker.add, and by delete() while the stop() of
\* its _flush waits inside worker.remove.
\* _refill releases it around get_audio_data, and work() when it returns.
XALockFree == cb_pc = "idle" /\ main_pc # "delete_stop_remove"
\* PlayerWorkerThread._operation_lock: held by the worker for the length of work()
OperationLockFree == worker_pc = "idle" \/ main_pc = "work"

\* _flush with a flush in flight: max(self._flush_operation, operation), and
\* the same taking the later operation
XAFlushLatest(flush_operation, operation) == operation
XAFlushPending(flush_operation, operation) == Max(flush_operation, operation)

\* _needs_refill() without the test of max_buffer_count
XANeedsRefillUncapped(exhausted, in_use) == ~exhausted

\* _needs_refill()
XANeedsRefill(exhausted, in_use) ==
    ~exhausted /\ Len(in_use) < max_buffer_count

\* play() up to worker.add
XAPlay ==
    /\ backend = "xa"
    /\ main_pc = "idle"
    /\ XALockFree
    /\ xa_voice_returned = 0
    /\ ~xa_playing
    /\ xa_playing' = TRUE
    /\ IF xa_flush_operation = None
       THEN /\ xa_voice_playing' = TRUE
            /\ main_pc' = "add"
       ELSE UNCHANGED <<xa_voice_playing, main_pc>>
    /\ UNCHANGED <<backend, base_vars, worker_pc, work_due, cb_pc, xa_flush_operation,
                   xa_write_cursor, xa_play_cursor, xa_audio_data_in_use,
                   xa_source_exhausted, xa_audio_data, xa_audio_events, xa_flushing,
                   xa_voice_returned, not_xa>>

\* PlayerWorkerThread.add(player), for play()
XAPlayAdd ==
    /\ backend = "xa"
    /\ main_pc = "add"
    /\ OperationLockFree
    /\ players' = players \cup {"xa"}
    /\ main_pc' = "idle"
    /\ UNCHANGED <<backend, events, audio_diff_avg_count, audio_diff_cum, posted,
                   source_left, epoch, next_id, source_none, last_index, append_sorted,
                   worker_pc, work_due, cb_pc, xa_vars, not_xa>>

\* stop(): reads _playing, then PlayerWorkerThread.remove reads `player in
\* self.players`; neither read is under a lock
XAStop ==
    /\ backend = "xa"
    /\ main_pc = "idle"
    /\ xa_voice_returned = 0
    /\ xa_playing
    /\ main_pc' = IF "xa" \in players THEN "remove" ELSE "stopping"
    /\ UNCHANGED <<backend, base_vars, worker_pc, work_due, cb_pc, xa_vars, not_xa>>

\* PlayerWorkerThread.remove(player) under the operation lock, for stop()
XAStopRemove ==
    /\ backend = "xa"
    /\ main_pc = "remove"
    /\ OperationLockFree
    /\ players' = players \ {"xa"}
    /\ main_pc' = "stopping"
    /\ UNCHANGED <<backend, events, audio_diff_avg_count, audio_diff_cum, posted,
                   source_left, epoch, next_id, source_none, last_index, append_sorted,
                   worker_pc, work_due, cb_pc, xa_vars, not_xa>>

\* the rest of stop(): _playing = False and voice.stop()
XAStopVoice ==
    /\ backend = "xa"
    /\ main_pc = "stopping"
    /\ xa_playing' = FALSE
    /\ xa_voice_playing' = FALSE
    /\ main_pc' = "idle"
    /\ UNCHANGED <<backend, base_vars, worker_pc, work_due, cb_pc, xa_flush_operation,
                   xa_write_cursor, xa_play_cursor, xa_audio_data_in_use,
                   xa_source_exhausted, xa_audio_data, xa_audio_events, xa_flushing,
                   xa_voice_returned, not_xa>>

\* clear(), which the player must be stopped for: super().clear(), which runs
\* before the lock is taken
XAClear ==
    /\ backend = "xa"
    /\ main_pc = "idle"
    /\ xa_voice_returned = 0
    /\ ~xa_playing
    /\ epoch < MaxClears
    /\ events' = <<>>
    /\ audio_diff_avg_count' = 0
    /\ audio_diff_cum' = 0
    /\ epoch' = epoch + 1
    /\ last_index' = None
    /\ main_pc' = "clear"
    /\ UNCHANGED <<backend, posted, players, source_left, next_id, source_none,
                   append_sorted, worker_pc, work_due, cb_pc, xa_vars, not_xa>>

\* the rest of clear(), under the lock: the cursors, the exhausted flag and
\* _flush(FLUSH), whose stop() finds _playing False; a flush with nothing
\* queued completes at once.  The source is then as AfterClear says.
XAClearFlush(left) ==
    /\ backend = "xa"
    /\ main_pc = "clear"
    /\ XALockFree
    /\ xa_play_cursor' = 0
    /\ xa_write_cursor' = 0
    /\ xa_source_exhausted' = FALSE
    /\ IF xa_flush_operation = None
       THEN /\ xa_flush_operation' = IF xa_audio_data_in_use = <<>> THEN None ELSE FLUSH
            /\ xa_flushing' = Len(xa_audio_data_in_use)
       ELSE /\ xa_flush_operation' = XAFlushPending(xa_flush_operation, FLUSH)
            /\ UNCHANGED xa_flushing
    /\ source_none' = FALSE
    /\ source_left' = left
    /\ main_pc' = "idle"
    /\ UNCHANGED <<backend, events, audio_diff_avg_count, audio_diff_cum, posted, players,
                   epoch, next_id, last_index, append_sorted, worker_pc, work_due, cb_pc,
                   xa_playing, xa_audio_data_in_use, xa_audio_data, xa_audio_events,
                   xa_voice_playing, xa_voice_returned, not_xa>>

\* delete() up to worker.remove, whose `player in self.players` is read
\* without a lock
XADelete ==
    /\ backend = "xa"
    /\ main_pc = "idle"
    /\ xa_voice_returned = 0
    /\ main_pc' = IF "xa" \in players THEN "delete_remove" ELSE "delete_lock"
    /\ UNCHANGED <<backend, base_vars, worker_pc, work_due, cb_pc, xa_vars, not_xa>>

\* PlayerWorkerThread.remove(player) under the operation lock, for delete()
XADeleteRemove ==
    /\ backend = "xa"
    /\ main_pc = "delete_remove"
    /\ OperationLockFree
    /\ players' = players \ {"xa"}
    /\ main_pc' = "delete_lock"
    /\ UNCHANGED <<backend, events, audio_diff_avg_count, audio_diff_cum, posted,
                   source_left, epoch, next_id, source_none, last_index, append_sorted,
                   worker_pc, work_due, cb_pc, xa_vars, not_xa>>

\* _flush(FLUSH_THEN_DELETE) with no flush in flight, from the end of its
\* stop(): the voice is flushed, and with nothing queued _on_flush_complete
\* and _delete_now return the voice at once.
XAFlushThenDelete ==
    /\ xa_playing' = FALSE
    /\ xa_voice_playing' = IF xa_playing THEN FALSE ELSE xa_voice_playing
    /\ IF xa_audio_data_in_use = <<>>
       THEN /\ xa_flush_operation' = None
            /\ xa_voice_returned' = xa_voice_returned + 1
            /\ UNCHANGED xa_flushing
       ELSE /\ xa_flush_operation' = FLUSH_THEN_DELETE
            /\ xa_flushing' = Len(xa_audio_data_in_use)
            /\ UNCHANGED xa_voice_returned
    /\ main_pc' = "idle"

\* delete() from `with self._lock:`. With a flush in flight the operation is
\* raised; else _flush calls stop(), whose worker.remove waits for the
\* operation lock, self._lock held, when the player is in the set.
XADeleteFlush ==
    /\ backend = "xa"
    /\ main_pc = "delete_lock"
    /\ XALockFree
    /\ IF xa_flush_operation # None
       THEN /\ xa_flush_operation' =
                  XAFlushPending(xa_flush_operation, FLUSH_THEN_DELETE)
            /\ main_pc' = "idle"
            /\ UNCHANGED <<xa_playing, xa_voice_playing, xa_flushing, xa_voice_returned>>
       ELSE IF xa_voice_returned > 0
            THEN \* the flush in flight has ended and returned the voice since
                 \* delete() was entered: self.driver and the voice are None,
                 \* and stop() or voice.flush() raises AttributeError
                 /\ xa_flush_operation' =
                       IF xa_playing THEN xa_flush_operation ELSE FLUSH_THEN_DELETE
                 /\ main_pc' = "idle"
                 /\ UNCHANGED <<xa_playing, xa_voice_playing, xa_flushing,
                                xa_voice_returned>>
       ELSE IF xa_playing /\ "xa" \in players
            THEN /\ main_pc' = "delete_stop_remove"
                 /\ UNCHANGED <<xa_playing, xa_voice_playing, xa_flush_operation,
                                xa_flushing, xa_voice_returned>>
            ELSE XAFlushThenDelete
    /\ UNCHANGED <<backend, base_vars, worker_pc, work_due, cb_pc, xa_write_cursor,
                   xa_play_cursor, xa_audio_data_in_use, xa_source_exhausted,
                   xa_audio_data, xa_audio_events, not_xa>>

\* PlayerWorkerThread.remove(player) under the operation lock, for the stop()
\* of delete()'s _flush, and the rest of that _flush
XADeleteStopRemove ==
    /\ backend = "xa"
    /\ main_pc = "delete_stop_remove"
    /\ OperationLockFree
    /\ players' = players \ {"xa"}
    /\ XAFlushThenDelete
    /\ UNCHANGED <<backend, events, audio_diff_avg_count, audio_diff_cum, posted,
                   source_left, epoch, next_id, source_none, last_index, append_sorted,
                   worker_pc, work_due, cb_pc, xa_write_cursor, xa_play_cursor,
                   xa_audio_data_in_use, xa_source_exhausted, xa_audio_data,
                   xa_audio_events, not_xa>>

\* work(), by the worker thread or through prefill_audio() before the player is
\* started, up to the point where _refill has released the lock
XAWork ==
    /\ backend = "xa"
    /\ worker_pc = "idle"
    /\ \/ "xa" \in players /\ main_pc # "work"
       \/ "xa" \notin players /\ ~xa_playing /\ main_pc = "idle" /\ xa_voice_returned = 0
    /\ XALockFree
    /\ xa_flush_operation = None
    /\ XANeedsRefill(xa_source_exhausted, xa_audio_data_in_use)
    /\ \E diff \in DiffSamples :
         LET d == GetAudioTimeDiff(audio_diff_avg_count, audio_diff_cum, diff)
         IN  /\ audio_diff_avg_count' = d.count
             /\ audio_diff_cum' = d.cum
    /\ worker_pc' = "get"
    /\ work_due' = IF "xa" \in players THEN DueIds(events, xa_play_cursor) ELSE {}
    /\ main_pc' = IF "xa" \in players THEN main_pc ELSE "work"
    /\ UNCHANGED <<backend, events, posted, players, source_left, epoch, next_id,
                   source_none, last_index, append_sorted, cb_pc, xa_vars, not_xa>>

\* _refill(): get_audio_data returns, with the lock released
XAGetAudioData ==
    /\ backend = "xa"
    /\ worker_pc = "get"
    /\ LET length == SourceGet(source_left, xa_buffer_size)
       IN  /\ xa_audio_data' = length
           /\ xa_audio_events' \in PacketEvents(length, source_left)
           /\ source_left' = IF length = None THEN source_left ELSE source_left - length
           /\ source_none' = (source_none \/ length = None)
    /\ worker_pc' = "got"
    /\ UNCHANGED <<backend, work_due, events, audio_diff_avg_count, audio_diff_cum, posted, players,
                   epoch, next_id, last_index, append_sorted, main_pc, cb_pc, xa_playing,
                   xa_flush_operation, xa_write_cursor, xa_play_cursor,
                   xa_audio_data_in_use, xa_source_exhausted, xa_voice_playing,
                   xa_flushing, xa_voice_returned, not_xa>>

\* _refill() from taking the lock again, then the next test of _needs_refill
\* and either the start of the next _refill or the end of work()
XARefill ==
    /\ backend = "xa"
    /\ worker_pc = "got"
    /\ XALockFree
    /\ LET exhausted == xa_audio_data = None
           in_use == IF exhausted THEN xa_audio_data_in_use
                     ELSE Append(xa_audio_data_in_use, xa_audio_data)
           offsets == IF exhausted THEN <<>> ELSE xa_audio_events
           again == XANeedsRefill(exhausted, in_use)
       IN  /\ xa_source_exhausted' = exhausted
           /\ posted' = IF exhausted /\ xa_audio_data_in_use = <<>>
                        THEN Append(posted, PostEos(epoch))
                        ELSE posted
           /\ xa_audio_data_in_use' = in_use
           /\ events' = AppendEvents(events, xa_write_cursor, offsets, next_id, epoch)
           /\ next_id' = next_id + Len(offsets)
           /\ last_index' = LastAppended(last_index, xa_write_cursor, offsets)
           /\ append_sorted' =
                (append_sorted /\ KeepsSorted(last_index, xa_write_cursor, offsets))
           /\ xa_write_cursor' = IF exhausted THEN xa_write_cursor
                                 ELSE xa_write_cursor + xa_audio_data
           /\ IF again
              THEN /\ \E diff \in DiffSamples :
                        LET d == GetAudioTimeDiff(audio_diff_avg_count, audio_diff_cum, diff)
                        IN  /\ audio_diff_avg_count' = d.count
                            /\ audio_diff_cum' = d.cum
                   /\ worker_pc' = "get"
                   /\ UNCHANGED <<main_pc, work_due>>
              ELSE /\ worker_pc' = "idle"
                   /\ work_due' = {}
                   /\ main_pc' = IF main_pc = "work" THEN "idle" ELSE main_pc
                   /\ UNCHANGED <<audio_diff_avg_count, audio_diff_cum>>
    /\ xa_audio_data' = None
    /\ xa_audio_events' = <<>>
    /\ UNCHANGED <<backend, players, source_left, epoch, source_none, cb_pc, xa_playing,
                   xa_flush_operation, xa_play_cursor, xa_voice_playing, xa_flushing,
                   xa_voice_returned, not_xa>>

\* on_buffer_end(), from the XAudio2 thread: the voice is done with its first
\* queued buffer, which it played to the end or which a flush discarded.
\* _on_flush_complete with _playing set goes on to worker.add, lock held.
XAOnBufferEnd ==
    /\ backend = "xa"
    /\ XALockFree
    /\ xa_audio_data_in_use # <<>>
    /\ xa_voice_playing \/ xa_flushing > 0
    /\ xa_audio_data_in_use' = Tail(xa_audio_data_in_use)
    /\ xa_flushing' = Max(xa_flushing - 1, 0)
    /\ LET last == Tail(xa_audio_data_in_use) = <<>>
           flushed == last /\ xa_flush_operation # None
           restart == flushed /\ xa_flush_operation = FLUSH /\ xa_playing
       IN  /\ xa_flush_operation' = IF flushed THEN None ELSE xa_flush_operation
           /\ xa_voice_returned' = IF flushed /\ xa_flush_operation = FLUSH_THEN_DELETE
                                   THEN xa_voice_returned + 1
                                   ELSE xa_voice_returned
           /\ xa_voice_playing' = (xa_voice_playing \/ restart)
           /\ cb_pc' = IF restart THEN "add" ELSE "idle"
           /\ posted' = IF last /\ xa_flush_operation = None /\ xa_source_exhausted
                        THEN Append(posted, PostEos(epoch))
                        ELSE posted
    /\ UNCHANGED <<backend, events, audio_diff_avg_count, audio_diff_cum, players,
                   source_left, epoch, next_id, source_none, last_index, append_sorted,
                   main_pc, worker_pc, work_due, xa_playing, xa_write_cursor, xa_play_cursor,
                   xa_source_exhausted, xa_audio_data, xa_audio_events, not_xa>>

\* PlayerWorkerThread.add(player), for _on_flush_complete; on_buffer_end then
\* releases the lock
XAOnFlushCompleteAdd ==
    /\ backend = "xa"
    /\ cb_pc = "add"
    /\ OperationLockFree
    /\ players' = players \cup {"xa"}
    /\ cb_pc' = "idle"
    /\ UNCHANGED <<backend, events, audio_diff_avg_count, audio_diff_cum, posted,
                   source_left, epoch, next_id, source_none, last_index, append_sorted,
                   main_pc, worker_pc, work_due, xa_vars, not_xa>>

----------------------------------------------------------------------------
(* PreciseStreamingSource over an upstream source that may over- and        *)
(* undershoot. backend = "precise" drives one such source through arbitrary  *)
(* get_audio_data and seek calls. The upstream stream is ps_up_size bytes,   *)
(* the byte at position k having the value k.                                *)

\* pyglet.util.next_or_equal_power_of_two
RECURSIVE PowerOfTwoFrom(_, _)
PowerOfTwoFrom(p, x) == IF p >= x THEN p ELSE PowerOfTwoFrom(2 * p, x)
next_or_equal_power_of_two(x) == PowerOfTwoFrom(1, x)

\* attempts = (base_attempt, base_attempt, base_attempt * 2, base_attempt * 8),
\* and a tuple that never raises the size
PSAttemptsFlat(required_bytes) ==
    LET base_attempt == next_or_equal_power_of_two(Max(4096, required_bytes + 16))
    IN  <<base_attempt, base_attempt, base_attempt, base_attempt>>
PSAttempts(required_bytes) ==
    LET base_attempt == next_or_equal_power_of_two(Max(4096, required_bytes + 16))
    IN  <<base_attempt, base_attempt, base_attempt * 2, base_attempt * 8>>

\* res = self._buffer[:num_bytes], and the same without the cut at num_bytes
PSTakeAll(buffer, num_bytes) == buffer
PSTakeNothing(buffer, num_bytes) == <<>>
PSTake(buffer, num_bytes) == SubSeq(buffer, 1, Min(num_bytes, Len(buffer)))
PSRestKept(buffer, num_bytes) == buffer
\* del self._buffer[:num_bytes]
PSRest(buffer, num_bytes) == SubSeq(buffer, Min(num_bytes, Len(buffer)) + 1, Len(buffer))

\* The bytes of the upstream stream from position `pos`, `length` of them.
UpstreamData(pos, length) == [i \in 1..length |-> pos + i - 1]
\* A request large enough for base_attempt to exceed 4096
LargeRequest == 4081

\* What the upstream may answer to a request at its position: None at its end,
\* or a packet of any length up to MaxPacket, whatever was asked for.
UpstreamReplies == {None} \cup 0..MaxPacket

\* self._buffer.clear(), and a seek that keeps the buffer
BufferKept(buffer) == buffer
BufferClear(buffer) == <<>>

\* State after PreciseStreamingSource.__init__, no call running
PSQuiet ==
    /\ ps_pc = "idle"
    /\ ps_buffer = <<>>
    /\ ps_exhausted = FALSE
    /\ ps_num_bytes = 0
    /\ ps_attempts = <<>>
    /\ ps_cur_attempt_idx = 0
    /\ ps_empty_bailout = 0
    /\ ps_asked = 0
    /\ ps_result = <<>>
    /\ ps_result_none = FALSE
    /\ ps_up_pos = 0
    /\ ps_short = FALSE
    /\ ps_seeks = 0
    /\ ps_out = <<>>
    /\ ps_from = 0
    /\ ps_up_none = FALSE
    /\ ps_turn = 0
    /\ ps_empties = 0
    /\ ps_revived = FALSE

\* The end of get_audio_data: cut the result off the buffer and return it,
\* None when it is empty.
PSFinish(buffer, num_bytes) ==
    /\ ps_result' = PSTake(buffer, num_bytes)
    /\ ps_result_none' = (PSTake(buffer, num_bytes) = <<>>)
    /\ ps_buffer' = PSRest(buffer, num_bytes)
    /\ ps_pc' = "done"

\* get_audio_data(num_bytes) up to its return or to the first upstream request
PSGetAudioData(num_bytes) ==
    /\ backend = "precise"
    /\ ps_pc = "idle"
    /\ ps_num_bytes' = num_bytes
    /\ ps_turn' = 0
    /\ ps_empties' = 0
    /\ IF ps_exhausted
       THEN /\ ps_result' = <<>>
            /\ ps_result_none' = TRUE
            /\ ps_pc' = "done"
            /\ UNCHANGED <<ps_buffer, ps_attempts, ps_cur_attempt_idx, ps_empty_bailout>>
       ELSE IF Len(ps_buffer) < num_bytes
            THEN /\ ps_attempts' = PSAttempts(num_bytes - Len(ps_buffer))
                 /\ ps_cur_attempt_idx' = 0
                 /\ ps_empty_bailout' = 4
                 /\ ps_pc' = "loop"
                 /\ UNCHANGED <<ps_buffer, ps_result, ps_result_none>>
            ELSE /\ PSFinish(ps_buffer, num_bytes)
                 /\ UNCHANGED <<ps_attempts, ps_cur_attempt_idx, ps_empty_bailout>>
    /\ UNCHANGED <<backend, base_vars, ps_exhausted, ps_asked, ps_up_size, ps_up_pos,
                   ps_short, ps_seeks, ps_out, ps_from, ps_up_none, ps_revived,
                   not_ps>>

\* One turn of the `while True` loop of get_audio_data: the upstream answers
\* `res` (None, or the length of its packet); when the loop breaks, the rest
\* of get_audio_data.
PSLoop(res) ==
    /\ backend = "precise"
    /\ ps_pc = "loop"
    /\ IF res = None THEN ps_up_pos = ps_up_size ELSE ps_up_pos + res <= ps_up_size
    /\ LET cur_attempt_idx == IF ps_cur_attempt_idx + 1 < 4
                              THEN ps_cur_attempt_idx + 1 ELSE ps_cur_attempt_idx
           empty_bailout == IF res = None THEN ps_empty_bailout
                            ELSE IF res = 0 THEN ps_empty_bailout - 1
                            ELSE 4
           exhausted == res = None \/ (res = 0 /\ empty_bailout <= 0)
           buffer == IF res = None THEN ps_buffer
                     ELSE ps_buffer \o UpstreamData(ps_up_pos, res)
       IN  /\ ps_cur_attempt_idx' = cur_attempt_idx
           /\ ps_asked' = ps_attempts[cur_attempt_idx + 1]
           /\ ps_empty_bailout' = empty_bailout
           /\ ps_exhausted' = exhausted
           /\ ps_up_pos' = IF res = None THEN ps_up_pos ELSE ps_up_pos + res
           /\ ps_up_none' = (ps_up_none \/ res = None)
           /\ ps_turn' = ps_turn + 1
           /\ ps_empties' = IF res = 0 THEN ps_empties + 1 ELSE 0
           /\ IF Len(buffer) >= ps_num_bytes \/ exhausted
              THEN PSFinish(buffer, ps_num_bytes)
              ELSE /\ ps_buffer' = buffer
                   /\ UNCHANGED <<ps_pc, ps_result, ps_result_none>>
    /\ UNCHANGED <<backend, base_vars, ps_num_bytes, ps_attempts, ps_up_size, ps_short,
                   ps_seeks, ps_out, ps_from, ps_revived, not_ps>>

\* The caller has the packet get_audio_data returned.
PSReturn ==
    /\ backend = "precise"
    /\ ps_pc = "done"
    /\ ps_pc' = "idle"
    /\ ps_short' = (ps_short \/ ps_result_none \/ Len(ps_result) < ps_num_bytes)
    /\ ps_out' = ps_out \o ps_result
    /\ ps_turn' = 0
    /\ ps_empties' = 0
    /\ UNCHANGED <<backend, base_vars, ps_buffer, ps_exhausted, ps_num_bytes, ps_attempts,
                   ps_cur_attempt_idx, ps_empty_bailout, ps_asked, ps_result,
                   ps_result_none, ps_up_size, ps_up_pos, ps_seeks, ps_from, ps_up_none,
                   ps_revived, not_ps>>

\* seek(timestamp): the upstream seeks to position `pos` of its stream
PSSeek(pos) ==
    /\ backend = "precise"
    /\ ps_pc = "idle"
    /\ ps_seeks < MaxSeeks
    /\ ps_seeks' = ps_seeks + 1
    /\ ps_buffer' = BufferClear(ps_buffer)
    /\ ps_exhausted' = FALSE
    /\ ps_revived' = ps_result_none
    /\ ps_up_pos' = pos
    /\ ps_short' = FALSE
    /\ ps_out' = <<>>
    /\ ps_from' = pos
    /\ ps_up_none' = FALSE
    /\ UNCHANGED <<backend, base_vars, ps_pc, ps_num_bytes, ps_attempts,
                   ps_cur_attempt_idx, ps_empty_bailout, ps_asked, ps_result,
                   ps_result_none, ps_up_size, ps_turn, ps_empties, not_ps>>

----------------------------------------------------------------------------
(* Source ownership and StaticMemorySource. backend = "memory" drives one    *)
(* StaticMemorySource through acquire, release, seek and get_audio_data. Its *)
(* data is ms_max_offset bytes, the byte at offset k having the value k. A   *)
(* seek timestamp t is given by h, the count of half bytes in                *)
(* t * bytes_per_second.                                                     *)

\* Whether acquire() raises, and the same for an acquire() that never does
AcquireNeverRaises(attached) == FALSE
AcquireRaises(attached) == attached

\* int(timestamp * self.audio_format.bytes_per_second)
SeekOffset(h) == IF h >= 0 THEN h \div 2 ELSE 0 - ((0 - h) \div 2)

\* State after StaticMemorySource.__init__
MSQuiet ==
    /\ ms_file_pos = 0
    /\ is_player_source = FALSE
    /\ ms_result = <<>>
    /\ ms_result_none = FALSE
    /\ ms_raised = "none"
    /\ ms_prev_pos = 0
    /\ ms_holds = 0
    /\ ps_is_player_source = FALSE
    /\ ms_direct = FALSE

\* Source.acquire, called on the StaticMemorySource itself
Acquire ==
    /\ backend = "memory"
    /\ IF AcquireRaises(is_player_source)
       THEN /\ ms_raised' = "MediaException"
            /\ UNCHANGED <<is_player_source, ms_holds>>
       ELSE /\ ms_raised' = "none"
            /\ is_player_source' = TRUE
            /\ ms_holds' = ms_holds + 1
    /\ ms_direct' = TRUE
    /\ UNCHANGED <<backend, ms_max_offset, ms_file_pos, ms_result, ms_result_none,
                   ms_prev_pos, ps_is_player_source, sg_vars, not_sources>>

\* Source.release, called on the StaticMemorySource itself
Release ==
    /\ backend = "memory"
    /\ is_player_source' = FALSE
    /\ ms_holds' = 0
    /\ ms_raised' = "none"
    /\ ms_direct' = TRUE
    /\ UNCHANGED <<backend, ms_max_offset, ms_file_pos, ms_result, ms_result_none,
                   ms_prev_pos, ps_is_player_source, sg_vars, not_sources>>

\* PreciseStreamingSource.acquire: super().acquire() raises on an attached
\* wrapper and marks an unattached one, then self._source.acquire() raises on
\* an attached upstream, in which case nothing resets the wrapper's mark
PSAcquire ==
    /\ backend = "memory"
    /\ IF AcquireRaises(ps_is_player_source)
       THEN /\ ms_raised' = "MediaException"
            /\ UNCHANGED <<ps_is_player_source, is_player_source, ms_holds>>
       ELSE /\ ps_is_player_source' = TRUE
            /\ IF AcquireRaises(is_player_source)
               THEN /\ ms_raised' = "MediaException"
                    /\ UNCHANGED <<is_player_source, ms_holds>>
               ELSE /\ ms_raised' = "none"
                    /\ is_player_source' = TRUE
                    /\ ms_holds' = ms_holds + 1
    /\ UNCHANGED <<backend, ms_max_offset, ms_file_pos, ms_result, ms_result_none,
                   ms_prev_pos, ms_direct, sg_vars, not_sources>>

\* PreciseStreamingSource.release: super().release(), self._source.release()
PSRelease ==
    /\ backend = "memory"
    /\ ps_is_player_source' = FALSE
    /\ is_player_source' = FALSE
    /\ ms_holds' = 0
    /\ ms_raised' = "none"
    /\ UNCHANGED <<backend, ms_max_offset, ms_file_pos, ms_result, ms_result_none,
                   ms_prev_pos, ms_direct, sg_vars, not_sources>>

\* StaticMemorySource.seek(timestamp); io.BytesIO.seek raises ValueError on a
\* negative position and takes any other, past the end of the data too.
MSSeek(h) ==
    /\ backend = "memory"
    /\ LET offset == align(SeekOffset(h))
       IN  IF offset < 0
           THEN /\ ms_raised' = "ValueError"
                /\ UNCHANGED ms_file_pos
           ELSE /\ ms_raised' = "none"
                /\ ms_file_pos' = offset
    /\ ms_prev_pos' = ms_file_pos
    /\ UNCHANGED <<backend, ms_max_offset, is_player_source, ms_result, ms_result_none,
                   ms_holds, ps_is_player_source, ms_direct, sg_vars, not_sources>>

\* data = self._file.read(num_bytes)
MSRead(pos, size, num_bytes) ==
    IF pos >= size THEN <<>> ELSE UpstreamData(pos, Min(num_bytes, size - pos))

\* StaticMemorySource.get_audio_data(num_bytes)
MSGetAudioData(num_bytes) ==
    /\ backend = "memory"
    /\ LET data == MSRead(ms_file_pos, ms_max_offset, num_bytes)
       IN  /\ ms_result' = data
           /\ ms_result_none' = (data = <<>>)
           /\ ms_file_pos' = ms_file_pos + Len(data)
    /\ ms_prev_pos' = ms_file_pos
    /\ ms_raised' = "none"
    /\ UNCHANGED <<backend, ms_max_offset, is_player_source, ms_holds,
                   ps_is_player_source, ms_direct, sg_vars, not_sources>>

----------------------------------------------------------------------------
(* SourceGroup. backend = "group" drives one SourceGroup through add and     *)
(* get_audio_data over the sources Srcs. A "static" source is a              *)
(* StaticMemorySource, whose get_queue_source hands the group a fresh        *)
(* StaticMemorySource over the same data; a "streaming" source is a          *)
(* StreamingSource that is not precise, whose get_queue_source hands the     *)
(* group a PreciseStreamingSource around it and acquires both. Byte k of     *)
(* source s is <<s, k>>. Durations count in 1 / bytes_per_second seconds.    *)

Srcs == {"s1", "s2"}
\* AudioFormat(channels, sample_size, sample_rate), and the audio_format None
\* of a source without audio
FormatA == <<1, 16, 2>>
FormatB == <<2, 16, 2>>
NoFormat == <<>>

SrcBytes(s, pos, length) == [i \in 1..length |-> <<s, pos + i - 1>>]

\* What a source may be: a StaticMemorySource (its duration is that of its
\* data), or a streaming source that knows its duration or does not, silent
\* when it has no audio format.
SrcConfigs ==
    {[kind |-> "static", format |-> f, size |-> z, duration |-> z] :
        f \in {FormatA, FormatB}, z \in 0..MaxSrcBytes}
    \cup {[kind |-> "streaming", format |-> f, size |-> z,
            duration |-> IF known THEN z ELSE None] :
        f \in {FormatA, FormatB}, z \in 0..MaxSrcBytes, known \in BOOLEAN}
    \cup {[kind |-> "streaming", format |-> NoFormat, size |-> 0, duration |-> d] :
        d \in {None, 0}}

\* State after SourceGroup.__init__, no source made
SGQuiet ==
    /\ src_kind = [s \in Srcs |-> "static"]
    /\ src_format = [s \in Srcs |-> FormatA]
    /\ src_duration = [s \in Srcs |-> 0]
    /\ src_size = [s \in Srcs |-> 0]
    /\ src_is_player_source = [s \in Srcs |-> FALSE]
    /\ src_pos = [s \in Srcs |-> 0]
    /\ sg_audio_format = NoFormat
    /\ sg_duration = 0
    /\ sg_timestamp_offset = 0
    /\ sg_sources = <<>>
    /\ sg_result = <<>>
    /\ sg_result_none = FALSE
    /\ sg_raised = "none"
    /\ sg_out = <<>>
    /\ sg_expected = <<>>
    /\ sg_adds = 0

\* SourceGroup._advance with a source to pop; `st` is the state of the group
\* and of the sources during a get_audio_data call. Adding None to
\* _timestamp_offset raises TypeError, before the source is released.
SGAdvance(st) ==
    LET old_source == Head(st.sources)
        duration == src_duration[old_source.src]
    IN  IF duration = None
        THEN [st EXCEPT !.sources = Tail(@),
                        !.pos[old_source.src] = old_source.pos,
                        !.raised = "TypeError"]
        ELSE [st EXCEPT !.sources = Tail(@),
                        !.pos[old_source.src] = old_source.pos,
                        !.timestamp_offset = @ + duration,
                        !.duration = @ - duration,
                        !.attached[old_source.src] =
                            IF src_kind[old_source.src] = "streaming" THEN FALSE ELSE @]

\* The `while self._sources and len(buffer) < num_bytes` loop of
\* SourceGroup.get_audio_data; the first source, being precise, answers
\* num_bytes bytes, or what it has left, or None.
RECURSIVE SGFill(_, _)
SGFill(st, num_bytes) ==
    IF st.raised # "none" \/ st.sources = <<>> \/ Len(st.buffer) >= num_bytes
    THEN st
    ELSE LET source == Head(st.sources)
             length == Min(num_bytes, src_size[source.src] - source.pos)
         IN  IF length > 0
             THEN SGFill([st EXCEPT
                     !.sources = <<[source EXCEPT !.pos = @ + length]>> \o Tail(@),
                     !.buffer = @ \o SrcBytes(source.src, source.pos, length)], num_bytes)
             ELSE SGFill(SGAdvance(st), num_bytes)

\* SourceGroup.get_audio_data(num_bytes)
SGGetAudioData(num_bytes) ==
    /\ backend = "group"
    /\ IF sg_sources = <<>>
       THEN /\ sg_result' = <<>>
            /\ sg_result_none' = TRUE
            /\ sg_raised' = "none"
            /\ UNCHANGED <<sg_sources, sg_duration, sg_timestamp_offset,
                           src_is_player_source, src_pos, sg_out>>
       ELSE LET st == SGFill([sources |-> sg_sources, buffer |-> <<>>,
                              duration |-> sg_duration,
                              timestamp_offset |-> sg_timestamp_offset,
                              attached |-> src_is_player_source, pos |-> src_pos,
                              raised |-> "none"], num_bytes)
            IN  /\ sg_sources' = st.sources
                /\ sg_duration' = st.duration
                /\ sg_timestamp_offset' = st.timestamp_offset
                /\ src_is_player_source' = st.attached
                /\ src_pos' = st.pos
                /\ sg_raised' = st.raised
                /\ sg_result' = IF st.raised = "none" THEN st.buffer ELSE <<>>
                /\ sg_result_none' = (st.raised = "none" /\ st.buffer = <<>>)
                /\ sg_out' = IF st.raised = "none" THEN sg_out \o st.buffer ELSE sg_out
    /\ UNCHANGED <<backend, src_kind, src_format, src_duration, src_size, sg_audio_format,
                   sg_expected, sg_adds, ms_vars, not_sources>>

\* SourceGroup.add(source) from `self._sources.append(qsource)` on; the queue
\* source of a streaming source reads on from where that source is.
SGAppend(s) ==
    LET pos == IF src_kind[s] = "static" THEN 0 ELSE src_pos[s]
    IN  /\ sg_sources' = Append(sg_sources, [src |-> s, pos |-> pos])
        /\ sg_duration' = IF src_duration[s] # None
                          THEN sg_duration + src_duration[s] ELSE sg_duration
        /\ sg_expected' = sg_expected \o SrcBytes(s, pos, src_size[s] - pos)
        /\ sg_adds' = sg_adds + 1
        /\ sg_raised' = "none"

\* SourceGroup.add(source); source.get_queue_source() acquires the queue source
\* before the formats are compared.
SGAdd(s) ==
    /\ backend = "group"
    /\ sg_adds < MaxAdds
    /\ IF src_kind[s] = "streaming" /\ AcquireRaises(src_is_player_source[s])
       THEN /\ sg_raised' = "MediaException"
            /\ UNCHANGED <<src_is_player_source, sg_audio_format, sg_sources, sg_duration,
                           sg_expected, sg_adds>>
       ELSE /\ src_is_player_source' =
                    IF src_kind[s] = "streaming"
                    THEN [src_is_player_source EXCEPT ![s] = TRUE]
                    ELSE src_is_player_source
            /\ IF sg_audio_format = NoFormat
               THEN /\ sg_audio_format' = src_format[s]
                    /\ SGAppend(s)
               ELSE IF sg_audio_format # src_format[s]
                    THEN /\ sg_raised' = "MediaException"
                         /\ UNCHANGED <<sg_audio_format, sg_sources, sg_duration,
                                        sg_expected, sg_adds>>
                    ELSE /\ SGAppend(s)
                         /\ UNCHANGED sg_audio_format
    /\ UNCHANGED <<backend, src_kind, src_format, src_duration, src_size, src_pos,
                   sg_timestamp_offset, sg_result, sg_result_none, sg_out, ms_vars,
                   not_sources>>

----------------------------------------------------------------------------
(* PlayerWorkerThread. backend = "worker" drives one started worker thread   *)
(* and the threads that call add, remove and stop on it: the main thread,    *)
(* and the thread of the XAudio2 callbacks, which only adds.                 *)

\* _nap_time, in units of 20 ms
nap_time == 1

WTPlayers == {"p1", "p2"}
WTThreads == {"main", "callback"}

\* Whether a thread may take _operation_lock, and the same of a lock that
\* keeps nobody out
LockOpen(lock) == TRUE
LockFree(lock) == lock = "none"

\* _rest_event after notify(), and after a notify() that does not set it
NotifyOmitted(rest_event) == rest_event
Notify(rest_event) == TRUE

\* State after PlayerWorkerThread.__init__ and start(): run() is at its first
\* wait, sleep_time is None.
WTQuiet ==
    /\ wt_pc = "wait"
    /\ wt_sleep_time = None
    /\ wt_rest_event = FALSE
    /\ wt_operation_lock = "none"
    /\ wt_stopped = FALSE
    /\ wt_players = {}
    /\ wt_iter = {}
    /\ wt_caller = [t \in WTThreads |-> [pc |-> "idle", player |-> "p1"]]
    /\ wt_ops = 0
    /\ wt_calls = [p \in WTPlayers |-> 0]
    /\ wt_raised = "none"

\* self._rest_event.wait(sleep_time) returns: the event is set, or the timeout
\* has passed.
WTWait ==
    /\ backend = "worker"
    /\ wt_pc = "wait"
    /\ wt_rest_event \/ wt_sleep_time # None
    /\ wt_pc' = "clear"
    /\ UNCHANGED <<backend, wt_sleep_time, wt_rest_event, wt_operation_lock, wt_stopped,
                   wt_players, wt_iter, wt_caller, wt_ops, wt_calls, wt_raised,
                   not_worker>>

\* self._rest_event.clear()
WTClear ==
    /\ backend = "worker"
    /\ wt_pc = "clear"
    /\ wt_rest_event' = FALSE
    /\ wt_pc' = "stopped"
    /\ UNCHANGED <<backend, wt_sleep_time, wt_operation_lock, wt_stopped, wt_players,
                   wt_iter, wt_caller, wt_ops, wt_calls, wt_raised, not_worker>>

\* A loop that goes on whatever _stopped holds
WTNeverBreaks ==
    /\ backend = "worker"
    /\ wt_pc = "stopped"
    /\ wt_pc' = "lock"
    /\ UNCHANGED <<backend, wt_sleep_time, wt_rest_event, wt_operation_lock, wt_stopped,
                   wt_players, wt_iter, wt_caller, wt_ops, wt_calls, wt_raised,
                   not_worker>>

\* if self._stopped: break
WTCheckStopped ==
    /\ backend = "worker"
    /\ wt_pc = "stopped"
    /\ wt_pc' = IF wt_stopped THEN "exited" ELSE "lock"
    /\ UNCHANGED <<backend, wt_sleep_time, wt_rest_event, wt_operation_lock, wt_stopped,
                   wt_players, wt_iter, wt_caller, wt_ops, wt_calls, wt_raised,
                   not_worker>>

\* `with self._operation_lock:` and `if self.players:` with the assignment to
\* sleep_time of either branch
WTLock ==
    /\ backend = "worker"
    /\ wt_pc = "lock"
    /\ LockFree(wt_operation_lock)
    /\ wt_operation_lock' = "worker"
    /\ wt_sleep_time' = IF wt_players # {} THEN nap_time ELSE None
    /\ wt_iter' = wt_players
    /\ wt_pc' = "iterate"
    /\ UNCHANGED <<backend, wt_rest_event, wt_stopped, wt_players, wt_caller, wt_ops,
                   wt_calls, wt_raised, not_worker>>

\* one turn of `for player in self.players: player.work()`
WTWork(p) ==
    /\ backend = "worker"
    /\ wt_pc = "iterate"
    /\ p \in wt_iter
    /\ wt_iter' = wt_iter \ {p}
    /\ wt_calls' = [wt_calls EXCEPT ![p] = 1 - @]
    /\ UNCHANGED <<backend, wt_pc, wt_sleep_time, wt_rest_event, wt_operation_lock,
                   wt_stopped, wt_players, wt_caller, wt_ops, wt_raised, not_worker>>

\* player.work() raises what source.get_audio_data raised: no backend's work()
\* or _refill and nothing in run() catches it, so it leaves the `for` loop,
\* the `with` block releases _operation_lock, and run() ends with it.
WTWorkRaises(p) ==
    /\ backend = "worker"
    /\ wt_pc = "iterate"
    /\ p \in wt_iter
    /\ wt_iter' = {}
    /\ wt_operation_lock' = "none"
    /\ wt_raised' = "Exception"
    /\ wt_pc' = "exited"
    /\ UNCHANGED <<backend, wt_sleep_time, wt_rest_event, wt_stopped, wt_players,
                   wt_caller, wt_ops, wt_calls, not_worker>>

\* the end of the `with self._operation_lock:` block of run()
WTUnlock ==
    /\ backend = "worker"
    /\ wt_pc = "iterate"
    /\ wt_iter = {}
    /\ wt_operation_lock' = "none"
    /\ wt_pc' = "wait"
    /\ UNCHANGED <<backend, wt_sleep_time, wt_rest_event, wt_stopped, wt_players, wt_iter,
                   wt_caller, wt_ops, wt_calls, wt_raised, not_worker>>

\* Thread t calls add(player), remove(player) or stop(); the callback thread
\* only calls add.
WTCall(t, op, p) ==
    /\ backend = "worker"
    /\ wt_caller[t].pc = "idle"
    /\ wt_ops < MaxOps
    /\ t = "callback" => op = "add"
    /\ wt_ops' = wt_ops + 1
    /\ wt_caller' = [wt_caller EXCEPT ![t] = [pc |-> op, player |-> p]]
    /\ UNCHANGED <<backend, wt_pc, wt_sleep_time, wt_rest_event, wt_operation_lock,
                   wt_stopped, wt_players, wt_iter, wt_calls, wt_raised, not_worker>>

\* add: `with self._operation_lock:` entered
WTAddLock(t) ==
    /\ backend = "worker"
    /\ wt_caller[t].pc = "add"
    /\ LockFree(wt_operation_lock)
    /\ wt_operation_lock' = t
    /\ wt_caller' = [wt_caller EXCEPT ![t].pc = "add_players"]
    /\ UNCHANGED <<backend, wt_pc, wt_sleep_time, wt_rest_event, wt_stopped, wt_players,
                   wt_iter, wt_ops, wt_calls, wt_raised, not_worker>>

\* add: self.players.add(player)
WTAddPlayer(t) ==
    /\ backend = "worker"
    /\ wt_caller[t].pc = "add_players"
    /\ wt_players' = wt_players \cup {wt_caller[t].player}
    /\ wt_caller' = [wt_caller EXCEPT ![t].pc = "add_unlock"]
    /\ UNCHANGED <<backend, wt_pc, wt_sleep_time, wt_rest_event, wt_operation_lock,
                   wt_stopped, wt_iter, wt_ops, wt_calls, wt_raised, not_worker>>

\* add: the end of the `with` block
WTAddUnlock(t) ==
    /\ backend = "worker"
    /\ wt_caller[t].pc = "add_unlock"
    /\ wt_operation_lock' = "none"
    /\ wt_caller' = [wt_caller EXCEPT ![t].pc = "add_notify"]
    /\ UNCHANGED <<backend, wt_pc, wt_sleep_time, wt_rest_event, wt_stopped, wt_players,
                   wt_iter, wt_ops, wt_calls, wt_raised, not_worker>>

\* add: self.notify()
WTAddNotify(t) ==
    /\ backend = "worker"
    /\ wt_caller[t].pc = "add_notify"
    /\ wt_rest_event' = Notify(wt_rest_event)
    /\ wt_caller' = [wt_caller EXCEPT ![t].pc = "idle"]
    /\ UNCHANGED <<backend, wt_pc, wt_sleep_time, wt_operation_lock, wt_stopped,
                   wt_players, wt_iter, wt_ops, wt_calls, wt_raised, not_worker>>

\* remove: `if player in self.players:`, read without the lock
WTRemoveCheck(t) ==
    /\ backend = "worker"
    /\ wt_caller[t].pc = "remove"
    /\ wt_caller' = [wt_caller EXCEPT ![t].pc =
            IF wt_caller[t].player \in wt_players THEN "remove_lock" ELSE "idle"]
    /\ UNCHANGED <<backend, wt_pc, wt_sleep_time, wt_rest_event, wt_operation_lock,
                   wt_stopped, wt_players, wt_iter, wt_ops, wt_calls, wt_raised,
                   not_worker>>

\* remove: `with self._operation_lock:` entered
WTRemoveLock(t) ==
    /\ backend = "worker"
    /\ wt_caller[t].pc = "remove_lock"
    /\ LockFree(wt_operation_lock)
    /\ wt_operation_lock' = t
    /\ wt_caller' = [wt_caller EXCEPT ![t].pc = "remove_players"]
    /\ UNCHANGED <<backend, wt_pc, wt_sleep_time, wt_rest_event, wt_stopped, wt_players,
                   wt_iter, wt_ops, wt_calls, wt_raised, not_worker>>

\* remove: self.players.remove(player); set.remove raises KeyError for a
\* player that is not in the set.
WTRemovePlayer(t) ==
    /\ backend = "worker"
    /\ wt_caller[t].pc = "remove_players"
    /\ IF wt_caller[t].player \in wt_players
       THEN /\ wt_players' = wt_players \ {wt_caller[t].player}
            /\ wt_raised' = "none"
       ELSE /\ wt_raised' = "KeyError"
            /\ UNCHANGED wt_players
    /\ wt_caller' = [wt_caller EXCEPT ![t].pc = "remove_unlock"]
    /\ UNCHANGED <<backend, wt_pc, wt_sleep_time, wt_rest_event, wt_operation_lock,
                   wt_stopped, wt_iter, wt_ops, wt_calls, not_worker>>

\* remove: the end of the `with` block
WTRemoveUnlock(t) ==
    /\ backend = "worker"
    /\ wt_caller[t].pc = "remove_unlock"
    /\ wt_operation_lock' = "none"
    /\ wt_caller' = [wt_caller EXCEPT ![t].pc = "idle"]
    /\ UNCHANGED <<backend, wt_pc, wt_sleep_time, wt_rest_event, wt_stopped, wt_players,
                   wt_iter, wt_ops, wt_calls, wt_raised, not_worker>>

\* stop: self._stopped = True
WTStopSet(t) ==
    /\ backend = "worker"
    /\ wt_caller[t].pc = "stop"
    /\ wt_stopped' = TRUE
    /\ wt_caller' = [wt_caller EXCEPT ![t].pc = "stop_notify"]
    /\ UNCHANGED <<backend, wt_pc, wt_sleep_time, wt_rest_event, wt_operation_lock,
                   wt_players, wt_iter, wt_ops, wt_calls, wt_raised, not_worker>>

\* stop: self._rest_event.set()
WTStopNotify(t) ==
    /\ backend = "worker"
    /\ wt_caller[t].pc = "stop_notify"
    /\ wt_rest_event' = TRUE
    /\ wt_caller' = [wt_caller EXCEPT ![t].pc = "join"]
    /\ UNCHANGED <<backend, wt_pc, wt_sleep_time, wt_operation_lock, wt_stopped,
                   wt_players, wt_iter, wt_ops, wt_calls, wt_raised, not_worker>>

\* stop: self.join() returns, run() having ended
WTJoin(t) ==
    /\ backend = "worker"
    /\ wt_caller[t].pc = "join"
    /\ wt_pc = "exited"
    /\ wt_caller' = [wt_caller EXCEPT ![t].pc = "idle"]
    /\ UNCHANGED <<backend, wt_pc, wt_sleep_time, wt_rest_event, wt_operation_lock,
                   wt_stopped, wt_players, wt_iter, wt_ops, wt_calls, wt_raised,
                   not_worker>>

----------------------------------------------------------------------------
(* PlayerWorkerThread._threads and _thread_set_lock. backend = "exit" drives *)
(* the main thread through start() and stop() of the worker threads Workers  *)
(* and then through the atexit() hook, beside the run() of each worker that  *)
(* was started. The workers have no players: they wake on _rest_event only.  *)

Workers == {"w1", "w2"}

\* No worker started, the main thread in no call
EXQuiet ==
    /\ ex_threads = {}
    /\ ex_thread_set_lock = "none"
    /\ ex_worker = [w \in Workers |-> [pc |-> "new", stopped |-> FALSE, rest_event |-> FALSE]]
    /\ ex_main = [pc |-> "idle", thread |-> "w1", todo |-> {}, atexit |-> FALSE]

\* The main thread calls start() on a worker that was not started
EXStart(w) ==
    /\ backend = "exit"
    /\ ex_main.pc = "idle"
    /\ ex_worker[w].pc = "new"
    /\ ex_main' = [ex_main EXCEPT !.pc = "start_acquire", !.thread = w]
    /\ UNCHANGED <<backend, ex_threads, ex_thread_set_lock, ex_worker, not_exit>>

\* start: self._thread_set_lock.acquire()
EXStartAcquire ==
    /\ backend = "exit"
    /\ ex_main.pc = "start_acquire"
    /\ LockFree(ex_thread_set_lock)
    /\ ex_thread_set_lock' = "start"
    /\ ex_main' = [ex_main EXCEPT !.pc = "start_thread"]
    /\ UNCHANGED <<backend, ex_threads, ex_worker, not_exit>>

\* start: super().start(); the new thread is about to enter run()
EXStartThread ==
    /\ backend = "exit"
    /\ ex_main.pc = "start_thread"
    /\ ex_worker' = [ex_worker EXCEPT ![ex_main.thread].pc = "run"]
    /\ ex_main' = [ex_main EXCEPT !.pc = "idle"]
    /\ UNCHANGED <<backend, ex_threads, ex_thread_set_lock, not_exit>>

\* run: self._threads.add(self)
EXRunAdd(w) ==
    /\ backend = "exit"
    /\ ex_worker[w].pc = "run"
    /\ ex_threads' = ex_threads \cup {w}
    /\ ex_worker' = [ex_worker EXCEPT ![w].pc = "release"]
    /\ UNCHANGED <<backend, ex_thread_set_lock, ex_main, not_exit>>

\* run: self._thread_set_lock.release(), by a thread other than the one that
\* acquired it, which threading.Lock allows
EXRunRelease(w) ==
    /\ backend = "exit"
    /\ ex_worker[w].pc = "release"
    /\ ex_thread_set_lock' = "none"
    /\ ex_worker' = [ex_worker EXCEPT ![w].pc = "wait"]
    /\ UNCHANGED <<backend, ex_threads, ex_main, not_exit>>

\* run: self._rest_event.wait(None) returns
EXRunWait(w) ==
    /\ backend = "exit"
    /\ ex_worker[w].pc = "wait"
    /\ ex_worker[w].rest_event
    /\ ex_worker' = [ex_worker EXCEPT ![w].pc = "clear"]
    /\ UNCHANGED <<backend, ex_threads, ex_thread_set_lock, ex_main, not_exit>>

\* run: self._rest_event.clear()
EXRunClear(w) ==
    /\ backend = "exit"
    /\ ex_worker[w].pc = "clear"
    /\ ex_worker' = [ex_worker EXCEPT ![w].pc = "stopped", ![w].rest_event = FALSE]
    /\ UNCHANGED <<backend, ex_threads, ex_thread_set_lock, ex_main, not_exit>>

\* run: `if self._stopped: break`, else a round over no players
EXRunCheckStopped(w) ==
    /\ backend = "exit"
    /\ ex_worker[w].pc = "stopped"
    /\ ex_worker' = [ex_worker EXCEPT ![w].pc = IF ex_worker[w].stopped THEN "remove"
                                                  ELSE "wait"]
    /\ UNCHANGED <<backend, ex_threads, ex_thread_set_lock, ex_main, not_exit>>

\* run: self._threads.remove(self), and run() ends
EXRunRemove(w) ==
    /\ backend = "exit"
    /\ ex_worker[w].pc = "remove"
    /\ ex_threads' = ex_threads \ {w}
    /\ ex_worker' = [ex_worker EXCEPT ![w].pc = "exited"]
    /\ UNCHANGED <<backend, ex_thread_set_lock, ex_main, not_exit>>

\* The main thread calls notify() on a worker it started, as add() does
EXNotify(w) ==
    /\ backend = "exit"
    /\ ex_main.pc = "idle"
    /\ ex_worker[w].pc # "new"
    /\ ~ex_worker[w].rest_event
    /\ ex_worker' = [ex_worker EXCEPT ![w].rest_event = Notify(@)]
    /\ UNCHANGED <<backend, ex_threads, ex_thread_set_lock, ex_main, not_exit>>

\* The main thread calls stop() on a worker it started and has not stopped
EXStop(w) ==
    /\ backend = "exit"
    /\ ex_main.pc = "idle"
    /\ ex_worker[w].pc # "new"
    /\ ~ex_worker[w].stopped
    /\ ex_main' = [ex_main EXCEPT !.pc = "stop_set", !.thread = w]
    /\ UNCHANGED <<backend, ex_threads, ex_thread_set_lock, ex_worker, not_exit>>

\* stop: self._stopped = True
EXStopSet ==
    /\ backend = "exit"
    /\ ex_main.pc = "stop_set"
    /\ ex_worker' = [ex_worker EXCEPT ![ex_main.thread].stopped = TRUE]
    /\ ex_main' = [ex_main EXCEPT !.pc = "stop_notify"]
    /\ UNCHANGED <<backend, ex_threads, ex_thread_set_lock, not_exit>>

\* stop: self._rest_event.set()
EXStopNotify ==
    /\ backend = "exit"
    /\ ex_main.pc = "stop_notify"
    /\ ex_worker' = [ex_worker EXCEPT ![ex_main.thread].rest_event = TRUE]
    /\ ex_main' = [ex_main EXCEPT !.pc = "join"]
    /\ UNCHANGED <<backend, ex_threads, ex_thread_set_lock, not_exit>>

\* stop: self.join() returns, run() having ended; stop() returns to its
\* caller, which is atexit() or not
EXJoin ==
    /\ backend = "exit"
    /\ ex_main.pc = "join"
    /\ ex_worker[ex_main.thread].pc = "exited"
    /\ ex_main' = [ex_main EXCEPT !.pc = IF ex_main.atexit THEN "atexit_next" ELSE "idle"]
    /\ UNCHANGED <<backend, ex_threads, ex_thread_set_lock, ex_worker, not_exit>>

\* The interpreter exits: the main thread enters atexit()
EXAtexit ==
    /\ backend = "exit"
    /\ ex_main.pc = "idle"
    /\ ex_main' = [ex_main EXCEPT !.pc = "atexit_acquire", !.atexit = TRUE]
    /\ UNCHANGED <<backend, ex_threads, ex_thread_set_lock, ex_worker, not_exit>>

\* atexit: `with cls._thread_set_lock:` entered
EXAtexitAcquire ==
    /\ backend = "exit"
    /\ ex_main.pc = "atexit_acquire"
    /\ LockFree(ex_thread_set_lock)
    /\ ex_thread_set_lock' = "atexit"
    /\ ex_main' = [ex_main EXCEPT !.pc = "atexit_list"]
    /\ UNCHANGED <<backend, ex_threads, ex_worker, not_exit>>

\* atexit: list(cls._threads)
EXAtexitList ==
    /\ backend = "exit"
    /\ ex_main.pc = "atexit_list"
    /\ ex_main' = [ex_main EXCEPT !.pc = "atexit_next", !.todo = ex_threads]
    /\ UNCHANGED <<backend, ex_threads, ex_thread_set_lock, ex_worker, not_exit>>

\* atexit: one turn of `for thread in ...: thread.stop()`, or the end of the
\* loop and of the `with` block
EXAtexitNext ==
    /\ backend = "exit"
    /\ ex_main.pc = "atexit_next"
    /\ IF ex_main.todo = {}
       THEN /\ ex_thread_set_lock' = "none"
            /\ ex_main' = [ex_main EXCEPT !.pc = "done"]
       ELSE /\ \E w \in ex_main.todo :
                ex_main' = [ex_main EXCEPT !.pc = "stop_set", !.thread = w,
                                           !.todo = @ \ {w}]
            /\ UNCHANGED ex_thread_set_lock
    /\ UNCHANGED <<backend, ex_threads, ex_worker, not_exit>>

----------------------------------------------------------------------------
(* The locks of PulseAudioPlayer. backend = "palock" runs the worker thread  *)
(* through work(), the PulseAudio mainloop thread through the write and      *)
(* underflow callbacks, and the main thread through play(), stop() and       *)
(* clear(), one lock acquisition at a time. The mainloop thread dispatches   *)
(* the callbacks of a stream with the mainloop lock held.                    *)

PLThreads == {"worker", "pa", "main"}

\* Whether some thread holds the lock, and whether every lock is always there
\* for the taking
PLOpen(held, lock) == TRUE
PLFree(held, lock) ==
    \A t \in PLThreads : \A i \in DOMAIN held[t] : held[t][i] # lock

\* State with no thread in a call
PLQuiet ==
    /\ pl_pc = [t \in PLThreads |-> "idle"]
    /\ pl_held = [t \in PLThreads |-> <<>>]
    /\ pl_nbytes = 0

\* the variables the locks' threads leave alone
pl_rest == <<backend, events, audio_diff_avg_count, audio_diff_cum, next_id, source_none,
             last_index, append_sorted, thread_vars, ds_vars, al_vars, xa_vars, ps_vars,
             ms_vars, sg_vars, wt_vars, ex_vars, df_vars, pa_virtual_write_index,
             pa_buffered, pa_requested, pa_read_index>>

\* The worker takes the player from its set and calls work()
PLWork ==
    /\ backend = "palock"
    /\ pl_pc["worker"] = "idle"
    /\ "pa" \in players
    /\ pl_pc' = [pl_pc EXCEPT !["worker"] = "write1"]
    /\ UNCHANGED <<pl_rest, pl_held, pl_nbytes, players, source_left, epoch, posted,
                   pa_source_exhausted, pa_pending_bytes, pa_available, pa_clear_write,
                   pa_playing, pa_refill_size, pa_corked>>

\* _maybe_write_pending: `with self._audio_data_lock:` entered and the test of
\* _pending_bytes and available; with nothing to write the block ends. `pass`
\* tells the call before _maybe_fill_audio_data_buffer from the one after.
PLWritePendingLock(pass) ==
    /\ backend = "palock"
    /\ pl_pc["worker"] = IF pass = 1 THEN "write1" ELSE "write2"
    /\ PLFree(pl_held, "audio_data")
    /\ IF pa_pending_bytes > 0 /\ pa_available > 0
       THEN /\ pl_held' = [pl_held EXCEPT !["worker"] = <<"audio_data">>]
            /\ pl_pc' = [pl_pc EXCEPT !["worker"] = IF pass = 1 THEN "mainloop1"
                                                   ELSE "mainloop2"]
       ELSE /\ pl_pc' = [pl_pc EXCEPT !["worker"] = IF pass = 1 THEN "fill" ELSE "idle"]
            /\ UNCHANGED pl_held
    /\ UNCHANGED <<pl_rest, pl_nbytes, players, source_left, epoch, posted,
                   pa_source_exhausted, pa_pending_bytes, pa_available, pa_clear_write,
                   pa_playing, pa_refill_size, pa_corked>>

\* _maybe_write_pending: `with self.stream.mainloop.lock:` entered, with
\* _audio_data_lock held
PLWritePendingMainloop(pass) ==
    /\ backend = "palock"
    /\ pl_pc["worker"] = IF pass = 1 THEN "mainloop1" ELSE "mainloop2"
    /\ PLFree(pl_held, "mainloop")
    /\ pl_held' = [pl_held EXCEPT !["worker"] = <<"audio_data", "mainloop">>]
    /\ pl_pc' = [pl_pc EXCEPT !["worker"] = IF pass = 1 THEN "writing1" ELSE "writing2"]
    /\ UNCHANGED <<pl_rest, pl_nbytes, players, source_left, epoch, posted,
                   pa_source_exhausted, pa_pending_bytes, pa_available, pa_clear_write,
                   pa_playing, pa_refill_size, pa_corked>>

\* _maybe_write_pending: _write_to_stream(self._pending_bytes) and the end of
\* both `with` blocks
PLWritePending(pass) ==
    /\ backend = "palock"
    /\ pl_pc["worker"] = IF pass = 1 THEN "writing1" ELSE "writing2"
    /\ LET t == PAMaybeWritePending(PAState)
       IN  /\ pa_available' = t.available
           /\ pa_pending_bytes' = t.pending
           /\ pa_clear_write' = t.clear_write
    /\ pl_held' = [pl_held EXCEPT !["worker"] = <<>>]
    /\ pl_pc' = [pl_pc EXCEPT !["worker"] = IF pass = 1 THEN "fill" ELSE "idle"]
    /\ UNCHANGED <<pl_rest, pl_nbytes, players, source_left, epoch, posted,
                   pa_source_exhausted, pa_playing, pa_refill_size, pa_corked>>

\* _maybe_fill_audio_data_buffer up to the call of get_audio_data: the lock is
\* taken, the refill size read and the lock released
PLFillSize ==
    /\ backend = "palock"
    /\ pl_pc["worker"] = "fill"
    /\ PLFree(pl_held, "audio_data")
    /\ LET refill_size == IF pa_source_exhausted THEN 0
                          ELSE PAGetIdealRefillSize(pa_available, pa_pending_bytes)
       IN  IF refill_size = 0
           THEN /\ pl_pc' = [pl_pc EXCEPT !["worker"] = "write2"]
                /\ UNCHANGED pa_refill_size
           ELSE /\ pl_pc' = [pl_pc EXCEPT !["worker"] = "get"]
                /\ pa_refill_size' = align(refill_size)
    /\ UNCHANGED <<pl_rest, pl_held, pl_nbytes, players, source_left, epoch, posted,
                   pa_source_exhausted, pa_pending_bytes, pa_available, pa_clear_write,
                   pa_playing, pa_corked>>

\* _maybe_fill_audio_data_buffer: source.get_audio_data(refill_size) returns
\* and self._audio_data_lock.acquire()
PLFillLock ==
    /\ backend = "palock"
    /\ pl_pc["worker"] = "get"
    /\ PLFree(pl_held, "audio_data")
    /\ pl_held' = [pl_held EXCEPT !["worker"] = <<"audio_data">>]
    /\ pl_pc' = [pl_pc EXCEPT !["worker"] = "add"]
    /\ UNCHANGED <<pl_rest, pl_nbytes, players, source_left, epoch, posted,
                   pa_source_exhausted, pa_pending_bytes, pa_available, pa_clear_write,
                   pa_playing, pa_refill_size, pa_corked>>

\* _maybe_fill_audio_data_buffer: the packet is added or the source marked
\* exhausted, and the lock released
PLFillAdd ==
    /\ backend = "palock"
    /\ pl_pc["worker"] = "add"
    /\ LET length == SourceGet(source_left, pa_refill_size)
       IN  IF length = None
           THEN /\ pa_source_exhausted' = TRUE
                /\ UNCHANGED <<pa_available, source_left>>
           ELSE /\ pa_available' = pa_available + length
                /\ source_left' = source_left - length
                /\ UNCHANGED pa_source_exhausted
    /\ pl_held' = [pl_held EXCEPT !["worker"] = <<>>]
    /\ pl_pc' = [pl_pc EXCEPT !["worker"] = "write2"]
    /\ UNCHANGED <<pl_rest, pl_nbytes, players, epoch, posted, pa_pending_bytes,
                   pa_clear_write, pa_playing, pa_refill_size, pa_corked>>

\* The mainloop thread takes the mainloop lock and dispatches the write
\* callback of the stream, which asks for nbytes
PLDispatchWrite(nbytes) ==
    /\ backend = "palock"
    /\ pl_pc["pa"] = "idle"
    /\ PLFree(pl_held, "mainloop")
    /\ pl_held' = [pl_held EXCEPT !["pa"] = <<"mainloop">>]
    /\ pl_pc' = [pl_pc EXCEPT !["pa"] = "write_callback"]
    /\ pl_nbytes' = nbytes
    /\ UNCHANGED <<pl_rest, players, source_left, epoch, posted, pa_source_exhausted,
                   pa_pending_bytes, pa_available, pa_clear_write, pa_playing,
                   pa_refill_size, pa_corked>>

\* The mainloop thread takes the mainloop lock and dispatches the underflow
\* callback of the running stream
PLDispatchUnderflow ==
    /\ backend = "palock"
    /\ pl_pc["pa"] = "idle"
    /\ ~pa_corked
    /\ Len(posted) < MaxUnderflows
    /\ PLFree(pl_held, "mainloop")
    /\ pl_held' = [pl_held EXCEPT !["pa"] = <<"mainloop">>]
    /\ pl_pc' = [pl_pc EXCEPT !["pa"] = "underflow_callback"]
    /\ UNCHANGED <<pl_rest, pl_nbytes, players, source_left, epoch, posted,
                   pa_source_exhausted, pa_pending_bytes, pa_available, pa_clear_write,
                   pa_playing, pa_refill_size, pa_corked>>

\* _write_callback or _underflow_callback: `with self._audio_data_lock:`
\* entered, with the mainloop lock held
PLCallbackLock ==
    /\ backend = "palock"
    /\ pl_pc["pa"] \in {"write_callback", "underflow_callback"}
    /\ PLFree(pl_held, "audio_data")
    /\ pl_held' = [pl_held EXCEPT !["pa"] = <<"mainloop", "audio_data">>]
    /\ pl_pc' = [pl_pc EXCEPT !["pa"] = IF pl_pc["pa"] = "write_callback" THEN "write"
                                       ELSE "underflow"]
    /\ UNCHANGED <<pl_rest, pl_nbytes, players, source_left, epoch, posted,
                   pa_source_exhausted, pa_pending_bytes, pa_available, pa_clear_write,
                   pa_playing, pa_refill_size, pa_corked>>

\* _write_callback under both locks, then mainloop.signal() and the return to
\* the mainloop, which lets go of its lock to poll
PLWriteCallback ==
    /\ backend = "palock"
    /\ pl_pc["pa"] = "write"
    /\ LET u == PAWriteToStream(PAState, pl_nbytes)
           unfulfilled == pl_nbytes - u.written
       IN  IF pa_available > 0
           THEN /\ pa_available' = u.available
                /\ pa_clear_write' = u.clear_write
                /\ pa_pending_bytes' = IF unfulfilled > 0 THEN unfulfilled
                                       ELSE pa_pending_bytes
           ELSE /\ pa_pending_bytes' = pl_nbytes
                /\ UNCHANGED <<pa_available, pa_clear_write>>
    /\ pl_held' = [pl_held EXCEPT !["pa"] = <<>>]
    /\ pl_pc' = [pl_pc EXCEPT !["pa"] = "idle"]
    /\ pl_nbytes' = 0
    /\ UNCHANGED <<pl_rest, players, source_left, epoch, posted, pa_source_exhausted,
                   pa_playing, pa_refill_size, pa_corked>>

\* _underflow_callback under both locks, then mainloop.signal() and the return
\* to the mainloop
PLUnderflowCallback ==
    /\ backend = "palock"
    /\ pl_pc["pa"] = "underflow"
    /\ posted' = IF pa_source_exhausted /\ pa_available = 0
                 THEN Append(posted, PostEos(epoch))
                 ELSE posted
    /\ pl_held' = [pl_held EXCEPT !["pa"] = <<>>]
    /\ pl_pc' = [pl_pc EXCEPT !["pa"] = "idle"]
    /\ UNCHANGED <<pl_rest, pl_nbytes, players, source_left, epoch, pa_source_exhausted,
                   pa_pending_bytes, pa_available, pa_clear_write, pa_playing,
                   pa_refill_size, pa_corked>>

\* play(): the stream is resumed under the mainloop lock, then worker.add
PLPlay ==
    /\ backend = "palock"
    /\ pl_pc["main"] = "idle"
    /\ ~pa_playing
    /\ PLFree(pl_held, "mainloop")
    /\ pa_corked' = FALSE
    /\ players' = players \cup {"pa"}
    /\ pa_playing' = TRUE
    /\ UNCHANGED <<pl_rest, pl_pc, pl_held, pl_nbytes, source_left, epoch, posted,
                   pa_source_exhausted, pa_pending_bytes, pa_available, pa_clear_write,
                   pa_refill_size>>

\* stop(): worker.remove, which waits for the worker to be out of work()
PLStopRemove ==
    /\ backend = "palock"
    /\ pl_pc["main"] = "idle"
    /\ pa_playing
    /\ pl_pc["worker"] = "idle"
    /\ players' = players \ {"pa"}
    /\ pl_pc' = [pl_pc EXCEPT !["main"] = "pause"]
    /\ UNCHANGED <<pl_rest, pl_held, pl_nbytes, source_left, epoch, posted,
                   pa_source_exhausted, pa_pending_bytes, pa_available, pa_clear_write,
                   pa_playing, pa_refill_size, pa_corked>>

\* stop(): the stream is paused under the mainloop lock
PLStopPause ==
    /\ backend = "palock"
    /\ pl_pc["main"] = "pause"
    /\ PLFree(pl_held, "mainloop")
    /\ pa_corked' = TRUE
    /\ pa_playing' = FALSE
    /\ pl_pc' = [pl_pc EXCEPT !["main"] = "idle"]
    /\ UNCHANGED <<pl_rest, pl_held, pl_nbytes, players, source_left, epoch, posted,
                   pa_source_exhausted, pa_pending_bytes, pa_available, pa_clear_write,
                   pa_refill_size>>

\* clear(), which the player must be stopped for: the block under
\* _audio_data_lock; the source is then as AfterClear says
PLClearBuffer(left) ==
    /\ backend = "palock"
    /\ pl_pc["main"] = "idle"
    /\ ~pa_playing
    /\ epoch < MaxClears
    /\ PLFree(pl_held, "audio_data")
    /\ pa_clear_write' = TRUE
    /\ pa_source_exhausted' = FALSE
    /\ pa_available' = 0
    /\ source_left' = left
    /\ epoch' = epoch + 1
    /\ pl_pc' = [pl_pc EXCEPT !["main"] = "prebuf"]
    /\ UNCHANGED <<pl_rest, pl_held, pl_nbytes, players, posted, pa_pending_bytes,
                   pa_playing, pa_refill_size, pa_corked>>

\* clear(): stream.prebuf() under the mainloop lock
PLClearPrebuf ==
    /\ backend = "palock"
    /\ pl_pc["main"] = "prebuf"
    /\ PLFree(pl_held, "mainloop")
    /\ pl_pc' = [pl_pc EXCEPT !["main"] = "idle"]
    /\ UNCHANGED <<pl_rest, pl_held, pl_nbytes, players, source_left, epoch, posted,
                   pa_source_exhausted, pa_pending_bytes, pa_available, pa_clear_write,
                   pa_playing, pa_refill_size, pa_corked>>

----------------------------------------------------------------------------

\* State after DirectSoundAudioPlayer.__init__, which ends with
\* _refill(self._buffer_size).
DSInit ==
    /\ backend = "ds"
    /\ \E left \in SourceSizes, diff \in DiffSamples :
         \E offsets \in PacketEvents(SourceGet(left, ds_buffer_size), left) :
           LET r == DSRefill(DSFresh(left), ds_buffer_size, diff, offsets)
           IN  /\ ds_write_cursor = r.w
               /\ ds_write_cursor_ring = r.ring
               /\ ds_eos_cursor = r.eos
               /\ events = r.q
               /\ next_id = r.nid
               /\ audio_diff_avg_count = r.count
               /\ audio_diff_cum = r.cum
               /\ source_left = r.left
               /\ source_none = r.none
               /\ ds_none_cursor = r.none_at
               /\ last_index = r.last
               /\ append_sorted = r.sorted
    /\ ds_playing = FALSE
    /\ ds_play_cursor_ring = 0
    /\ ds_play_cursor = 0
    /\ ds_has_underrun = FALSE
    /\ ds_position = 0
    /\ ds_emitted = 0
    /\ ds_unread = 0
    /\ posted = <<>>
    /\ players = {}
    /\ epoch = 0
    /\ ThreadsQuiet
    /\ ALQuiet
    /\ PAQuiet
    /\ XAQuiet
    /\ PSQuiet
    /\ MSQuiet
    /\ ms_max_offset = 0
    /\ SGQuiet
    /\ WTQuiet
    /\ EXQuiet
    /\ PLQuiet
    /\ DFQuiet
    /\ ps_up_size = 0

ALInit ==
    /\ backend = "al"
    /\ BaseQuiet
    /\ source_left \in SourceSizes
    /\ ThreadsQuiet
    /\ DSQuiet
    /\ ALQuiet
    /\ PAQuiet
    /\ XAQuiet
    /\ PSQuiet
    /\ MSQuiet
    /\ ms_max_offset = 0
    /\ SGQuiet
    /\ WTQuiet
    /\ EXQuiet
    /\ PLQuiet
    /\ DFQuiet
    /\ ps_up_size = 0

PAInit ==
    /\ backend = "pa"
    /\ BaseQuiet
    /\ source_left \in SourceSizes
    /\ ThreadsQuiet
    /\ DSQuiet
    /\ ALQuiet
    /\ PAQuiet
    /\ XAQuiet
    /\ PSQuiet
    /\ MSQuiet
    /\ ms_max_offset = 0
    /\ SGQuiet
    /\ WTQuiet
    /\ EXQuiet
    /\ PLQuiet
    /\ DFQuiet
    /\ ps_up_size = 0

XAInit ==
    /\ backend = "xa"
    /\ BaseQuiet
    /\ source_left \in SourceSizes
    /\ ThreadsQuiet
    /\ DSQuiet
    /\ ALQuiet
    /\ PAQuiet
    /\ XAQuiet
    /\ PSQuiet
    /\ MSQuiet
    /\ ms_max_offset = 0
    /\ SGQuiet
    /\ WTQuiet
    /\ EXQuiet
    /\ PLQuiet
    /\ DFQuiet
    /\ ps_up_size = 0

BaseInit ==
    /\ backend = "base"
    /\ BaseQuiet
    /\ source_left = 0
    /\ ThreadsQuiet
    /\ DSQuiet
    /\ ALQuiet
    /\ PAQuiet
    /\ XAQuiet
    /\ PSQuiet
    /\ MSQuiet
    /\ ms_max_offset = 0
    /\ SGQuiet
    /\ WTQuiet
    /\ EXQuiet
    /\ PLQuiet
    /\ DFQuiet
    /\ ps_up_size = 0

PreciseInit ==
    /\ backend = "precise"
    /\ BaseQuiet
    /\ source_left = 0
    /\ ThreadsQuiet
    /\ DSQuiet
    /\ ALQuiet
    /\ PAQuiet
    /\ XAQuiet
    /\ PSQuiet
    /\ MSQuiet
    /\ ms_max_offset = 0
    /\ SGQuiet
    /\ WTQuiet
    /\ EXQuiet
    /\ PLQuiet
    /\ DFQuiet
    /\ ps_up_size \in 0..MaxUpstream

Init ==
    \/ BaseInit
    \/ DSInit
    \/ ALInit
    \/ PAInit
    \/ XAInit

BaseOffsets == {<<a>> : a \in 0..2} \cup {<<a, b>> : a \in 0..2, b \in 0..2}

Next ==
    \/ \E i \in BaseIndices, offsets \in BaseOffsets : BaseAppendEvents(i, offsets)
    \/ \E i \in BaseIndices : BaseDispatchMediaEvents(i)
    \/ BaseClear
    \/ DSPlay
    \/ DSStop
    \/ \E left \in AfterClear(source_left) : DSClear(left)
    \/ DSWork
    \/ DSPrefillAudio
    \/ DSDevicePlays(bytes_per_frame)
    \/ ALPlay
    \/ ALStop
    \/ \E left \in AfterClear(source_left) : ALClear(left)
    \/ ALWork
    \/ ALPrefillAudio
    \/ ALRefill
    \/ ALDevicePlays(bytes_per_frame)
    \/ PAPlay
    \/ PAStop
    \/ \E left \in AfterClear(source_left) : PAClear(left)
    \/ PAWork
    \/ PAFill
    \/ \E nbytes \in Aligned(1, pa_tlength) : PAWriteCallback(nbytes)
    \/ PAUnderflowCallback
    \/ PADevicePlays(bytes_per_frame)
    \/ XAPlay
    \/ XAPlayAdd
    \/ XAStop
    \/ XAStopRemove
    \/ XAStopVoice
    \/ XAClear
    \/ \E left \in AfterClear(source_left) : XAClearFlush(left)
    \/ XADelete
    \/ XADeleteRemove
    \/ XADeleteFlush
    \/ XADeleteStopRemove
    \/ XAWork
    \/ XAGetAudioData
    \/ XARefill
    \/ XAOnBufferEnd
    \/ XAOnFlushCompleteAdd

Spec == Init /\ [][Next]_vars

PreciseNext ==
    \/ \E num_bytes \in (1..MaxRequest) \cup {LargeRequest} : PSGetAudioData(num_bytes)
    \/ \E res \in UpstreamReplies : PSLoop(res)
    \/ PSReturn
    \/ \E pos \in 0..ps_up_size : PSSeek(pos)

SpecPrecise == PreciseInit /\ [][PreciseNext]_vars

\* The upstream answers every request of the refill loop.
PSTurn == \E res \in UpstreamReplies : PSLoop(res)

SpecPreciseFair == SpecPrecise /\ WF_vars(PSTurn)

MemoryInit ==
    /\ backend = "memory"
    /\ BaseQuiet
    /\ source_left = 0
    /\ ThreadsQuiet
    /\ DSQuiet
    /\ ALQuiet
    /\ PAQuiet
    /\ XAQuiet
    /\ PSQuiet
    /\ ps_up_size = 0
    /\ MSQuiet
    /\ ms_max_offset \in 0..MaxMem
    /\ SGQuiet
    /\ WTQuiet
    /\ EXQuiet
    /\ PLQuiet
    /\ DFQuiet

GroupInit ==
    /\ backend = "group"
    /\ BaseQuiet
    /\ source_left = 0
    /\ ThreadsQuiet
    /\ DSQuiet
    /\ ALQuiet
    /\ PAQuiet
    /\ XAQuiet
    /\ PSQuiet
    /\ ps_up_size = 0
    /\ MSQuiet
    /\ ms_max_offset = 0
    /\ \E config \in [Srcs -> SrcConfigs] :
        /\ src_kind = [s \in Srcs |-> config[s].kind]
        /\ src_format = [s \in Srcs |-> config[s].format]
        /\ src_duration = [s \in Srcs |-> config[s].duration]
        /\ src_size = [s \in Srcs |-> config[s].size]
    /\ src_is_player_source = [s \in Srcs |-> FALSE]
    /\ src_pos = [s \in Srcs |-> 0]
    /\ sg_audio_format = NoFormat
    /\ sg_duration = 0
    /\ sg_timestamp_offset = 0
    /\ sg_sources = <<>>
    /\ sg_result = <<>>
    /\ sg_result_none = FALSE
    /\ sg_raised = "none"
    /\ sg_out = <<>>
    /\ sg_expected = <<>>
    /\ sg_adds = 0
    /\ WTQuiet
    /\ EXQuiet
    /\ PLQuiet
    /\ DFQuiet

SourcesInit ==
    \/ MemoryInit
    \/ GroupInit

SourcesNext ==
    \/ Acquire
    \/ Release
    \/ PSAcquire
    \/ PSRelease
    \/ \E h \in (0 - MaxSeekHalves)..MaxSeekHalves : MSSeek(h)
    \/ \E num_bytes \in 1..MaxRequest : MSGetAudioData(num_bytes)
    \/ \E s \in Srcs : SGAdd(s)
    \/ \E num_bytes \in 1..MaxRequest : SGGetAudioData(num_bytes)

SpecSources == SourcesInit /\ [][SourcesNext]_vars

\* The players with a lock of their own: XAudio2 and PulseAudio
XANext ==
    \/ XAPlay
    \/ XAPlayAdd
    \/ XAStop
    \/ XAStopRemove
    \/ XAStopVoice
    \/ XAClear
    \/ \E left \in AfterClear(source_left) : XAClearFlush(left)
    \/ XADelete
    \/ XADeleteRemove
    \/ XADeleteFlush
    \/ XADeleteStopRemove
    \/ XAWork
    \/ XAGetAudioData
    \/ XARefill
    \/ XAOnBufferEnd
    \/ XAOnFlushCompleteAdd

PALockInit ==
    /\ backend = "palock"
    /\ BaseQuiet
    /\ source_left \in SourceSizes
    /\ ThreadsQuiet
    /\ DSQuiet
    /\ ALQuiet
    /\ PAQuiet
    /\ XAQuiet
    /\ PSQuiet
    /\ ps_up_size = 0
    /\ MSQuiet
    /\ ms_max_offset = 0
    /\ SGQuiet
    /\ WTQuiet
    /\ EXQuiet
    /\ PLQuiet
    /\ DFQuiet

PALockNext ==
    \/ PLWork
    \/ \E pass \in {1, 2} : PLWritePendingLock(pass)
    \/ \E pass \in {1, 2} : PLWritePendingMainloop(pass)
    \/ \E pass \in {1, 2} : PLWritePending(pass)
    \/ PLFillSize
    \/ PLFillLock
    \/ PLFillAdd
    \/ \E nbytes \in Aligned(1, pa_tlength) : PLDispatchWrite(nbytes)
    \/ PLDispatchUnderflow
    \/ PLCallbackLock
    \/ PLWriteCallback
    \/ PLUnderflowCallback
    \/ PLPlay
    \/ PLStopRemove
    \/ PLStopPause
    \/ \E left \in AfterClear(source_left) : PLClearBuffer(left)
    \/ PLClearPrebuf

SpecPALock == PALockInit /\ [][PALockNext]_vars

SpecLocks == (XAInit \/ PALockInit) /\ [][XANext \/ PALockNext]_vars

\* State after AbstractAudioPlayer.__init__
DriftInit ==
    /\ backend = "drift"
    /\ BaseQuiet
    /\ source_left = 0
    /\ ThreadsQuiet
    /\ DSQuiet
    /\ ALQuiet
    /\ PAQuiet
    /\ XAQuiet
    /\ PSQuiet
    /\ ps_up_size = 0
    /\ MSQuiet
    /\ ms_max_offset = 0
    /\ SGQuiet
    /\ WTQuiet
    /\ EXQuiet
    /\ PLQuiet
    /\ DFQuiet

DriftNext ==
    \/ \E diff \in DriftSamples : DFGetAudioTimeDiff(diff)
    \/ DFClear

SpecDrift == DriftInit /\ [][DriftNext]_vars

ExitInit ==
    /\ backend = "exit"
    /\ BaseQuiet
    /\ source_left = 0
    /\ ThreadsQuiet
    /\ DSQuiet
    /\ ALQuiet
    /\ PAQuiet
    /\ XAQuiet
    /\ PSQuiet
    /\ ps_up_size = 0
    /\ MSQuiet
    /\ ms_max_offset = 0
    /\ SGQuiet
    /\ WTQuiet
    /\ EXQuiet
    /\ PLQuiet
    /\ DFQuiet

\* The steps of run() of worker w
EXRun(w) ==
    \/ EXRunAdd(w)
    \/ EXRunRelease(w)
    \/ EXRunWait(w)
    \/ EXRunClear(w)
    \/ EXRunCheckStopped(w)
    \/ EXRunRemove(w)

\* The steps of the main thread inside start(), stop() and atexit()
EXMain ==
    \/ EXStartAcquire
    \/ EXStartThread
    \/ EXStopSet
    \/ EXStopNotify
    \/ EXJoin
    \/ EXAtexitAcquire
    \/ EXAtexitList
    \/ EXAtexitNext

ExitNext ==
    \/ \E w \in Workers : EXStart(w)
    \/ \E w \in Workers : EXNotify(w)
    \/ \E w \in Workers : EXStop(w)
    \/ EXAtexit
    \/ EXMain
    \/ \E w \in Workers : EXRun(w)

SpecExit == ExitInit /\ [][ExitNext]_vars

\* Every thread that can take a step takes one in the end.
SpecExitFair ==
    /\ SpecExit
    /\ WF_vars(EXMain)
    /\ \A w \in Workers : WF_vars(EXRun(w))

WorkerInit ==
    /\ backend = "worker"
    /\ BaseQuiet
    /\ source_left = 0
    /\ ThreadsQuiet
    /\ DSQuiet
    /\ ALQuiet
    /\ PAQuiet
    /\ XAQuiet
    /\ PSQuiet
    /\ ps_up_size = 0
    /\ MSQuiet
    /\ ms_max_offset = 0
    /\ SGQuiet
    /\ WTQuiet
    /\ EXQuiet
    /\ PLQuiet
    /\ DFQuiet

\* The steps of run()
WTRun ==
    \/ WTWait
    \/ WTClear
    \/ WTCheckStopped
    \/ WTLock
    \/ \E p \in WTPlayers : WTWork(p)
    \/ WTUnlock

\* The steps of thread t inside a call of add, remove or stop
WTCaller(t) ==
    \/ WTAddLock(t)
    \/ WTAddPlayer(t)
    \/ WTAddUnlock(t)
    \/ WTAddNotify(t)
    \/ WTRemoveCheck(t)
    \/ WTRemoveLock(t)
    \/ WTRemovePlayer(t)
    \/ WTRemoveUnlock(t)
    \/ WTStopSet(t)
    \/ WTStopNotify(t)
    \/ WTJoin(t)

WorkerNext ==
    \/ WTRun
    \/ \E t \in WTThreads : WTCaller(t)
    \/ \E t \in WTThreads, op \in {"add", "remove", "stop"}, p \in WTPlayers :
        WTCall(t, op, p)

SpecWorker == WorkerInit /\ [][WorkerNext]_vars

\* The worker with sources whose get_audio_data may raise
WorkerRaisingNext ==
    \/ WorkerNext
    \/ \E p \in WTPlayers : WTWorkRaises(p)

SpecWorkerRaising == WorkerInit /\ [][WorkerRaisingNext]_vars

\* The worker thread keeps running, a wait with a timeout returns, and a thread
\* inside add, remove or stop goes on.
SpecWorkerFair ==
    /\ SpecWorker
    /\ WF_vars(WTRun)
    /\ \A t \in WTThreads : WF_vars(WTCaller(t))

----------------------------------------------------------------------------
(* Properties *)

\* Positions in the post log of the on_eos posts made under clear count ep.
EosPosts(ep) ==
    {i \in DOMAIN posted : posted[i].event = "on_eos" /\ posted[i].ep = ep}
\* This step posts on_eos.
PostsEos ==
    /\ Len(posted') > Len(posted)
    /\ posted'[Len(posted')].event = "on_eos"
\* The media events this step posts.
NewMediaPosts ==
    {posted'[i] : i \in {j \in (Len(posted) + 1)..Len(posted') :
                            posted'[j].event = "media"}}

\* C1: on a DirectSound or OpenAL player, on_eos is posted at most once per
\* clear count and only after the source returned None; and a work() that runs
\* once the backend played past the last written data (DirectSound: the play
\* cursor it reads is beyond an _eos_cursor set before; OpenAL: the source is
\* exhausted and the AL source no longer plays) leaves on_eos posted.
C1_EosExactlyOnce ==
    /\ [](backend \in {"ds", "al"} =>
            /\ \A ep \in 0..MaxClears : Cardinality(EosPosts(ep)) <= 1
            /\ EosPosts(epoch) # {} => source_none)
    /\ [][DSWork /\ ds_eos_cursor # None /\ ds_play_cursor' > ds_eos_cursor
            => Cardinality(EosPosts(epoch)') = 1]_vars
    /\ [][ALWork /\ al_source_exhausted /\ ~ALIsPlaying
            => Cardinality(EosPosts(epoch)') = 1]_vars

\* A DirectSound player that posted on_eos and whose work() ran again since.
C1_Witness ==
    /\ backend = "ds"
    /\ ds_has_underrun
    /\ Cardinality(EosPosts(epoch)) = 1
    /\ ds_play_cursor > ds_eos_cursor + bytes_per_frame

\* C2: a PulseAudio player posts on_eos at most once per clear count, however
\* many underflow callbacks run.
C2_PulseEosOnce ==
    backend = "pa" => \A ep \in 0..MaxClears : Cardinality(EosPosts(ep)) <= 1

\* C3: a step that posts on_eos ends, on DirectSound, with the play cursor
\* beyond _eos_cursor, which is the write cursor at which the source first
\* returned None; on XAudio2, with the source exhausted and no buffer in use;
\* on OpenAL, with the source exhausted and the AL source not playing.
C3_EosAfterLastByte ==
    [][PostsEos =>
        /\ backend = "ds" =>
             /\ ds_eos_cursor' # None
             /\ ds_play_cursor' > ds_eos_cursor'
             /\ ds_eos_cursor' = ds_none_cursor'
        /\ backend = "xa" =>
             /\ xa_source_exhausted'
             /\ xa_audio_data_in_use' = <<>>
        /\ backend = "al" =>
             /\ al_source_exhausted'
             /\ al_state' # "playing"]_vars

\* An XAudio2 player that posted on_eos after the buffers it wrote had ended.
C3_Witness ==
    /\ backend = "xa"
    /\ EosPosts(epoch) # {}
    /\ xa_source_exhausted
    /\ xa_audio_data_in_use = <<>>
    /\ xa_write_cursor > 0

\* C4: after clear() returned on a stopped player, on_eos is posted only once
\* get_audio_data returned None again.
C4_ClearCancelsEos ==
    [][PostsEos /\ backend \in {"ds", "al", "xa"} => source_none']_vars

\* C5: the cursors of a DirectSound, OpenAL or XAudio2 player satisfy
\* 0 <= play <= write and write - play <= capacity (the ring of DirectSound,
\* the buffers XAudio2 queues, a second and a buffer of OpenAL), and on OpenAL
\* buffer <= play.
C5_CursorInvariant ==
    /\ backend = "ds" =>
         /\ 0 <= ds_play_cursor
         /\ ds_play_cursor <= ds_write_cursor
         /\ ds_write_cursor - ds_play_cursor <= ds_buffer_size
    /\ backend = "al" =>
         /\ 0 <= al_buffer_cursor
         /\ al_buffer_cursor <= al_play_cursor
         /\ al_play_cursor <= al_write_cursor
         /\ al_write_cursor - al_play_cursor <= bytes_per_second + al_ideal_buffer_size
    /\ backend = "xa" =>
         /\ 0 <= xa_play_cursor
         /\ xa_play_cursor <= xa_write_cursor
         /\ xa_write_cursor - xa_play_cursor <= max_buffer_count * xa_buffer_size

\* C6: the step in which clear() returns leaves the event queue empty, the
\* drift filter reset, both cursors and their ring counterparts zero, and the
\* exhausted and eos-dispatched flags cleared.
C6_ClearResets ==
    [][(backend \in {"ds", "al", "pa"} /\ epoch' # epoch) \/ (main_pc = "clear" /\ main_pc' = "idle")
        =>
        /\ events' = <<>>
        /\ audio_diff_avg_count' = 0
        /\ audio_diff_cum' = 0
        /\ backend = "ds" =>
             /\ ds_play_cursor' = 0 /\ ds_write_cursor' = 0
             /\ ds_play_cursor_ring' = 0 /\ ds_write_cursor_ring' = 0
             /\ ds_eos_cursor' = None /\ ~ds_has_underrun'
        /\ backend = "al" =>
             /\ al_play_cursor' = 0 /\ al_write_cursor' = 0 /\ al_buffer_cursor' = 0
             /\ ~al_source_exhausted' /\ ~al_has_underrun'
        /\ backend = "pa" =>
             /\ pa_virtual_write_index' = 0 /\ ~pa_source_exhausted'
        /\ backend = "xa" =>
             /\ xa_play_cursor' = 0 /\ xa_write_cursor' = 0
             /\ ~xa_source_exhausted']_vars

\* C7 as stated: media events are posted in nondecreasing order of their index,
\* each at most once, and none is posted after a clear() that followed its append.
C7_PostedInIndexOrder ==
    \A i, j \in DOMAIN posted :
        (i < j /\ posted[i].event = "media" /\ posted[j].event = "media") =>
            /\ posted[i].id # posted[j].id
            /\ posted[i].ep = posted[i].at
            /\ posted[i].ep = posted[j].ep => posted[i].index <= posted[j].index

\* C7, amended: media events are posted in the order of their append, each at
\* most once, none after a clear() that followed its append; and in nondecreasing
\* order of their index as long as every append since the last clear() had an
\* index no smaller than the one before it.
C7_PostedInAppendOrder ==
    \A i, j \in DOMAIN posted :
        (posted[i].event = "media" /\ posted[j].event = "media") =>
            /\ posted[i].ep = posted[i].at
            /\ i < j => posted[i].id < posted[j].id
            /\ (i < j /\ append_sorted /\ posted[i].ep = posted[j].ep)
                 => posted[i].index <= posted[j].index

\* Two events appended in index order and posted in that order.
C7_Witness ==
    /\ backend = "base"
    /\ append_sorted
    /\ \E i, j \in DOMAIN posted :
         /\ i < j
         /\ posted[i].event = "media" /\ posted[j].event = "media"
         /\ posted[i].ep = posted[j].ep
         /\ posted[i].index < posted[j].index

\* C8: dispatch_media_events(until) posts the maximal prefix of the queue whose
\* indices are <= until, in order, and leaves the rest of the queue as it was;
\* and a player posts a media event only at or below the play cursor its work()
\* has read.
C8_DispatchMaximalPrefix ==
    /\ [][\A until \in BaseIndices :
            BaseDispatchMediaEvents(until) =>
              \E k \in 0..Len(events) :
                /\ \A i \in 1..k : events[i].index <= until
                /\ k < Len(events) => events[k + 1].index > until
                /\ posted' = posted \o [i \in 1..k |-> PostMedia(events[i], epoch)]
                /\ events' = SubSeq(events, k + 1, Len(events))]_vars
    /\ [][\A e \in NewMediaPosts :
            /\ backend = "ds" => e.index <= ds_play_cursor'
            /\ backend = "al" => e.index <= al_play_cursor']_vars

\* A dispatch that posted the first of two queued events and kept the second.
C8_Witness ==
    /\ backend = "base"
    /\ Len(posted) = 1
    /\ Len(events) = 1
    /\ posted[1].index < events[1].index

\* The play cursor a backend dispatches its events against, and the ids of the
\* events that were due when the work() call that a step belongs to began.
PlayCursor ==
    CASE backend = "ds" -> ds_play_cursor
      [] backend = "al" -> al_play_cursor
      [] backend = "pa" -> pa_read_index
      [] OTHER -> xa_play_cursor
DueAtWorkStart == IF worker_pc = "idle" THEN DueIds(events, PlayCursor) ELSE work_due
WorkerWorkEnds ==
    /\ backend \in players
    /\ main_pc # "work"
    /\ worker_pc' = "idle"
    /\ DSWork \/ ALWork \/ ALRefill \/ PAWork \/ PAFill \/ XARefill

\* C9: when a work() call of the worker ends on a playing player of any backend,
\* no event that was queued when the call began, with an index the play cursor
\* had reached by then, is still queued: it was posted.
C9_PostedByNextWork ==
    [][WorkerWorkEnds => \A j \in DOMAIN events' : events'[j].id \notin DueAtWorkStart]_vars

\* This step is the one in which get_audio_data returns.
PSReturns == ps_pc # "done" /\ ps_pc' = "done"

\* C10: a get_audio_data(n) of a PreciseStreamingSource never returns more than
\* n bytes; it returns fewer than n, or None, only with the source marked
\* exhausted; and once a call has returned fewer than it was asked for, every
\* call before the next seek returns None.
C10_PrecisionContract ==
    [][PSReturns =>
        /\ Len(ps_result') <= ps_num_bytes'
        /\ ps_result_none' = (ps_result' = <<>>)
        /\ Len(ps_result') < ps_num_bytes' => ps_exhausted'
        /\ ps_short => ps_result_none']_vars

\* A call that found less than it was asked for in the buffer has read the
\* upstream to its end and returned a packet shorter than asked, not empty, the
\* source being marked exhausted.
C10_Witness ==
    /\ backend = "precise"
    /\ ps_pc = "done"
    /\ ps_seeks = 0
    /\ ps_up_size = MaxUpstream
    /\ ps_up_pos = ps_up_size
    /\ ps_exhausted
    /\ ~ps_result_none
    /\ 0 < Len(ps_result)
    /\ Len(ps_result) < ps_num_bytes
    /\ ps_buffer = <<>>

\* The whole stream of the upstream from where the source began to read it.
UpstreamWhole == UpstreamData(ps_from, ps_up_size - ps_from)
\* What the caller has been handed, the packet being returned included.
PSHandedOut == IF ps_pc = "done" THEN ps_out \o ps_result ELSE ps_out

\* C11 as stated: whenever get_audio_data returns None, the packets returned
\* before it, concatenated, are the bytes of the whole upstream stream in order,
\* at least up to its last frame-aligned boundary.
C11_RoundTrip ==
    [][PSReturns /\ ps_result_none' =>
        /\ Len(ps_out') >= align(Len(UpstreamWhole))
        /\ Len(ps_out') <= Len(UpstreamWhole)
        /\ ps_out' = SubSeq(UpstreamWhole, 1, Len(ps_out'))]_vars

\* C11: at every moment the packets handed out followed by the bytes buffered
\* are the bytes read from the upstream, in order, none dropped, duplicated or
\* reordered; and when get_audio_data returns None after the upstream has
\* answered None, the packets returned are the whole upstream stream.
C11_RoundTripToUpstreamNone ==
    /\ [](PSHandedOut \o ps_buffer = UpstreamData(ps_from, ps_up_pos - ps_from))
    /\ [][PSReturns /\ ps_result_none' /\ ps_up_none' => ps_out' = UpstreamWhole]_vars

\* The whole of the longest upstream stream has been returned, in more than one
\* packet, and the call after the last packet returns None.
C11_Witness ==
    /\ backend = "precise"
    /\ ps_pc = "done"
    /\ ps_seeks = 0
    /\ ps_result_none
    /\ ps_up_none
    /\ ps_up_size = MaxUpstream
    /\ ps_out = UpstreamData(0, MaxUpstream)

\* C12: a get_audio_data(x) with x a multiple of bytes_per_frame returns a
\* packet whose length is a multiple of bytes_per_frame and at most x.
C12_AlignedLengths ==
    [][PSReturns /\ ps_num_bytes' % bytes_per_frame = 0 =>
        /\ Len(ps_result') % bytes_per_frame = 0
        /\ Len(ps_result') <= ps_num_bytes']_vars

\* C13 as stated: get_audio_data returns None only when the upstream has
\* answered None and the buffer is empty.
C13_NoneOnlyAfterUpstreamNone ==
    [][PSReturns /\ ps_result_none' => ps_up_none' /\ ps_buffer' = <<>>]_vars

\* C13: get_audio_data returns None only with the source marked exhausted and
\* the buffer empty, the source having been marked exhausted because the
\* upstream answered None or because four empty packets in a row arrived.
C13_NoneOnlyWhenExhausted ==
    [][PSReturns /\ ps_result_none' =>
        /\ ps_exhausted'
        /\ ps_buffer' = <<>>
        /\ ps_up_none' \/ ps_empty_bailout' <= 0]_vars

\* After a packet shorter than asked, a call returns None: the upstream has
\* answered None and nothing is buffered.
C13_Witness ==
    /\ backend = "precise"
    /\ ps_pc = "done"
    /\ ps_result_none
    /\ ps_up_none
    /\ ps_short
    /\ ps_buffer = <<>>
    /\ Len(ps_out) % bytes_per_frame = 1

\* C14: acquire() on a source that is not attached succeeds and marks it
\* attached; acquire() on an attached one raises and leaves it attached;
\* release() marks it unattached; no two acquire() calls succeed without a
\* release() between them; and a streaming source that is attached cannot be
\* added to a group through get_queue_source.
C14_ExclusiveOwnership ==
    /\ [](ms_holds <= 1)
    /\ [][/\ Acquire =>
                IF is_player_source
                THEN ms_raised' = "MediaException" /\ is_player_source'
                ELSE ms_raised' = "none" /\ is_player_source'
          /\ Release => ~is_player_source'
          /\ \A s \in Srcs :
                SGAdd(s) /\ src_kind[s] = "streaming" /\ src_is_player_source[s] =>
                    sg_raised' = "MediaException" /\ src_is_player_source'[s]]_vars

\* An acquire() on the attached source has just raised.
C14_Witness ==
    /\ backend = "memory"
    /\ is_player_source
    /\ ms_holds = 1
    /\ ms_raised = "MediaException"

Clamp(x, lo, hi) == IF x < lo THEN lo ELSE IF x > hi THEN hi ELSE x

\* C15: seek(t) raises nothing and sets the read offset to the frame-aligned
\* floor of t * bytes_per_second clamped to [0, size]; get_audio_data(n) returns
\* None at the end of the data and otherwise at most n bytes starting at the
\* read offset, which it advances by the length returned.
C15_SeekThenRead ==
    [][/\ \A h \in (0 - MaxSeekHalves)..MaxSeekHalves :
            MSSeek(h) =>
                /\ ms_raised' = "none"
                /\ ms_file_pos' = Clamp(align(h \div 2), 0, ms_max_offset)
       /\ \A n \in 1..MaxRequest :
            MSGetAudioData(n) =>
                /\ ms_result_none' = (ms_file_pos >= ms_max_offset)
                /\ Len(ms_result') <= n
                /\ ms_result' = UpstreamData(ms_file_pos, Len(ms_result'))
                /\ ms_file_pos' = ms_file_pos + Len(ms_result')]_vars

IsPrefix(a, b) == Len(a) <= Len(b) /\ a = SubSeq(b, 1, Len(a))

\* C16: the packets a SourceGroup has returned, concatenated, are at every
\* moment the first bytes of its members' bytes taken in the order the members
\* were added, and all of them when get_audio_data returns None.
C16_GaplessConcatenation ==
    /\ [](IsPrefix(sg_out, sg_expected))
    /\ [][(\E n \in 1..MaxRequest : SGGetAudioData(n)) /\ sg_result_none' =>
            sg_out' = sg_expected']_vars

\* C17: the first add() that succeeds sets the audio format of the group to
\* that of its source; an add() of a source whose format differs from the
\* format of a group that has had a source added raises and leaves the
\* members, the audio format and the duration of the group as they were.
C17_AddFormat ==
    [][\A s \in Srcs :
        SGAdd(s) =>
            /\ sg_adds = 0 /\ sg_adds' = 1 => sg_audio_format' = src_format[s]
            /\ sg_adds > 0 /\ src_format[s] # sg_audio_format =>
                /\ sg_raised' = "MediaException"
                /\ UNCHANGED <<sg_sources, sg_audio_format, sg_duration>>]_vars

RECURSIVE SumDurations(_)
SumDurations(sources) ==
    IF sources = <<>> THEN 0
    ELSE src_duration[Head(sources).src] + SumDurations(Tail(sources))

\* C18: the duration of a SourceGroup is None when a source it holds has the
\* duration None, and otherwise the sum of the durations of the sources it
\* holds.
C18_DurationIsSum ==
    backend = "group" =>
        sg_duration = IF \E i \in DOMAIN sg_sources : src_duration[sg_sources[i].src] = None
                      THEN None
                      ELSE SumDurations(sg_sources)

\* C19: while run() is inside its `for` loop over the players the worker holds
\* _operation_lock, and every step that changes the set of players is taken by
\* a thread inside add or remove that holds the lock, so never while the worker
\* iterates.
C19_SetMutatedUnderLock ==
    /\ [](wt_pc = "iterate" => wt_operation_lock = "worker")
    /\ [][wt_players' # wt_players =>
            /\ wt_operation_lock \in WTThreads
            /\ wt_caller[wt_operation_lock].pc \in {"add_players", "remove_players"}
            /\ wt_pc # "iterate"]_vars

\* The worker is inside its loop with a player yet to visit while one thread
\* waits for the lock in add and the other in remove.
C19_Witness ==
    /\ backend = "worker"
    /\ wt_pc = "iterate"
    /\ wt_iter # {}
    /\ wt_caller["callback"].pc = "add"
    /\ wt_caller["main"].pc = "remove_lock"

\* C20: while a player stays in the set of a worker that is not stopped,
\* work() is called on it again and again; the worker waits without a timeout
\* exactly when it found the set empty; and it is blocked in such a wait with a
\* player in the set only while the add() of a player has yet to notify it.
C20_NoLostWakeup ==
    /\ \A p \in WTPlayers : \A n \in {0, 1} :
        (p \in wt_players /\ ~wt_stopped /\ wt_calls[p] = n)
            ~> (wt_calls[p] # n \/ p \notin wt_players \/ wt_stopped)
    /\ [][WTLock => (wt_sleep_time' = None) = (wt_players = {})]_vars
    /\ [](wt_pc = "wait" /\ wt_sleep_time = None /\ ~wt_rest_event =>
            \/ wt_players = {}
            \/ \E t \in WTThreads : wt_caller[t].pc \in {"add_unlock", "add_notify"})

\* A player was added while the worker, having found the set empty, was on its
\* way to a wait without timeout: the worker is at that wait with the event set
\* and has yet to call work() on any player.
C20_Witness ==
    /\ backend = "worker"
    /\ wt_pc = "wait"
    /\ wt_sleep_time = None
    /\ wt_rest_event
    /\ ~wt_stopped
    /\ wt_players = {"p1"}
    /\ wt_calls = [p \in WTPlayers |-> 0]

\* C21: once stop() has set _stopped and the rest event and waits in join(),
\* run() leaves its loop and join() returns; after run() has read _stopped as
\* true it calls work() on no player and stays ended.
C21_ShutdownTerminates ==
    /\ \A t \in WTThreads :
         (wt_caller[t].pc = "join") ~> (wt_pc = "exited")
    /\ \A t \in WTThreads :
         (wt_caller[t].pc = "join") ~> (wt_caller[t].pc = "idle")
    /\ [][wt_pc = "exited" => wt_pc' = "exited" /\ wt_calls' = wt_calls]_vars
    /\ [][\A p \in WTPlayers : WTWork(p) => wt_pc' # "exited"]_vars

\* stop() has returned from join() after a player was worked on
C21_Witness ==
    /\ backend = "worker"
    /\ wt_pc = "exited"
    /\ wt_stopped
    /\ wt_caller["main"].pc = "idle"
    /\ wt_players = {"p1"}
    /\ wt_calls["p1"] = 1

\* C22: the step in which stop() returns leaves the player out of the worker's
\* player set, and the player enters the set only in a step of play(), or of
\* a flush that completes while the player is meant to play.
C22_StopDeregisters ==
    /\ [][(DSStop \/ ALStop \/ PAStop \/ XAStopVoice) => backend \notin players']_vars
    /\ [][backend \notin players /\ backend \in players' =>
            \/ DSPlay
            \/ ALPlay
            \/ PAPlay
            \/ XAPlayAdd
            \/ XAOnFlushCompleteAdd /\ xa_playing]_vars

\* C23: an error raised by get_audio_data inside work() is contained and the
\* worker thread keeps running: run() has ended only after stop() has set
\* _stopped.
C23_ErrorContained ==
    backend = "worker" /\ wt_pc = "exited" => wt_stopped

\* A flush raised to FLUSH_THEN_DELETE stays so until the voice is returned
XANoDowngrade ==
    [][xa_flush_operation = FLUSH_THEN_DELETE =>
         \/ xa_flush_operation' = FLUSH_THEN_DELETE
         \/ xa_voice_returned' = xa_voice_returned + 1]_vars

\* The voice is returned once at most, by a step that leaves no buffer in use
XAVoiceReturnedOnce ==
    [][xa_voice_returned' # xa_voice_returned =>
         /\ xa_voice_returned = 0
         /\ xa_voice_returned' = 1
         /\ xa_audio_data_in_use' = <<>>
         /\ xa_flushing' = 0]_vars

\* The step in which delete() returns leaves the player out of the worker's
\* set, and flushed: the voice returned, or to be returned by the flush
XADeleteReturns ==
    [][(XADeleteFlush \/ XADeleteStopRemove) /\ main_pc' = "idle" =>
         /\ "xa" \notin players'
         /\ xa_flush_operation' = FLUSH_THEN_DELETE \/ xa_voice_returned' = 1]_vars

\* C24: delete() on XAudio2 deregisters the player and flushes it: it does
\* not wait for the worker's lock, its own lock held, while the worker is
\* inside work(); a flush raised to FLUSH_THEN_DELETE is not lowered again;
\* the voice is returned once, with no buffer in use.
C24_DeleteFlushesAndReturnsVoice ==
    /\ [](main_pc = "delete_stop_remove" => worker_pc = "idle")
    /\ XADeleteReturns
    /\ XANoDowngrade
    /\ XAVoiceReturnedOnce

\* C25: on XAudio2 an exhaustion is answered by one on_eos. A step posts
\* on_eos only as the _refill that records the exhaustion with no buffer in
\* use, or as the on_buffer_end of the last buffer of an exhausted source
\* with no flush in flight, and never from a state in which the post was
\* already due; and on_eos is not lost: a player at rest whose source is
\* exhausted, with no buffer in use and no flush in flight, has posted it.
C25_XAudio2EosExactlyOnce ==
    /\ [][PostsEos /\ backend = "xa" =>
            /\ ~(xa_source_exhausted /\ xa_audio_data_in_use = <<>>)
            /\ \/ XARefill /\ xa_audio_data = None /\ xa_audio_data_in_use = <<>>
               \/ /\ XAOnBufferEnd
                  /\ xa_source_exhausted
                  /\ Len(xa_audio_data_in_use) = 1
                  /\ xa_flush_operation = None]_vars
    /\ [](/\ backend = "xa"
          /\ main_pc = "idle"
          /\ xa_source_exhausted
          /\ xa_audio_data_in_use = <<>>
          /\ xa_flush_operation = None
          /\ xa_voice_returned = 0
          => EosPosts(epoch) # {})

\* C26: on DirectSound each work() adds (new ring position - previous ring
\* position) mod R to _play_cursor and stores the new ring position; between
\* clears _play_cursor never decreases; and it equals the bytes the buffer has
\* played: it does after a clear(), and a work() that finds fewer than R
\* bytes played since the last one adds just these bytes.
C26_PlayCursorTracksEmitted ==
    /\ [][DSWork =>
            /\ ds_play_cursor' = ds_play_cursor
                  + ((ds_position - ds_play_cursor_ring) % ds_buffer_size)
            /\ ds_play_cursor_ring' = ds_position]_vars
    /\ [][backend = "ds" /\ epoch' = epoch => ds_play_cursor' >= ds_play_cursor]_vars
    /\ [][DSWork /\ ds_unread < ds_buffer_size =>
            ds_play_cursor' = ds_play_cursor + ds_unread]_vars
    /\ [][backend = "ds" /\ epoch' # epoch => ds_play_cursor' = ds_emitted']_vars

\* The events this step enqueues, and the write cursor of the backend before
\* the step: the output-stream offset of the first byte of the next packet
EnqueuedEvents ==
    {events'[i] : i \in {j \in DOMAIN events' : events'[j].id >= next_id}}
PacketStart ==
    IF backend = "ds" THEN ds_write_cursor
    ELSE IF backend = "al" THEN al_write_cursor
    ELSE IF backend = "pa" THEN pa_virtual_write_index
    ELSE xa_write_cursor

\* C27: on every backend the events of a packet (timestamped at the start of
\* the packet in the model) are enqueued with the write cursor before the
\* packet as their index, and events are appended in nondecreasing order of
\* index.
C27_EventBaseIndex ==
    /\ [][(backend \in {"ds", "al", "pa", "xa"}) =>
            \A e \in EnqueuedEvents : e.index = PacketStart]_vars
    /\ []((backend \in {"ds", "al", "pa", "xa"}) => append_sorted)

\* C28: a get_audio_data of PreciseStreamingSource that enters the refill
\* loop leaves it. A turn of the loop is the last one exactly when the buffer
\* then holds the requested bytes, the upstream answered None, or the fourth
\* empty packet in a row arrived, and the source is marked exhausted in just
\* the last two cases. The turns ask the upstream for a, 2a, 8a, 8a, ...
\* bytes, a = next_or_equal_power_of_two(max(4096, required + 16)).
C28_RefillLoopTerminates ==
    /\ (ps_pc = "loop") ~> (ps_pc = "done")
    /\ [][\A res \in UpstreamReplies : PSLoop(res) =>
            /\ (ps_pc' = "done") <=>
                  \/ Len(ps_buffer) + (IF res = None THEN 0 ELSE res) >= ps_num_bytes
                  \/ res = None
                  \/ ps_empties' = 4
            /\ ps_exhausted' <=> (res = None \/ ps_empties' = 4)
            /\ ps_asked' = ps_attempts[1] *
                  (IF ps_turn' = 1 THEN 1 ELSE IF ps_turn' = 2 THEN 2 ELSE 8)]_vars
    /\ [][\A n \in (1..MaxRequest) \cup {LargeRequest} :
            PSGetAudioData(n) /\ ps_pc' = "loop" =>
              ps_attempts'[1] =
                next_or_equal_power_of_two(Max(4096, n - Len(ps_buffer) + 16))]_vars

\* A call ended by the fourth empty packet in a row, on its fifth request, of
\* 8a bytes with a = 8192
C28_Witness ==
    /\ backend = "precise"
    /\ ps_pc = "done"
    /\ ps_exhausted
    /\ ~ps_up_none
    /\ ps_empties = 4
    /\ ps_turn = 5
    /\ ps_asked = 8 * 8192

\* C29: seek of PreciseStreamingSource empties the buffer and clears the
\* exhausted flag in the step that moves the upstream, and every byte handed
\* out after a seek is a byte the upstream produced after that seek, in the
\* upstream's order from the position sought: nothing buffered before the seek
\* is ever returned.
C29_SeekDiscardsBuffer ==
    /\ [][\A pos \in 0..MaxUpstream : PSSeek(pos) =>
            /\ ps_buffer' = <<>>
            /\ ~ps_exhausted'
            /\ ps_up_pos' = pos]_vars
    /\ [](ps_seeks > 0 =>
            /\ Len(PSHandedOut) + Len(ps_buffer) = ps_up_pos - ps_from
            /\ \A i \in 1..Len(PSHandedOut) : PSHandedOut[i] = ps_from + i - 1)

\* A source that had returned None was sought to a later position of the
\* upstream and now returns a packet of the upstream's bytes from that position
C29_Witness ==
    /\ backend = "precise"
    /\ ps_pc = "done"
    /\ ps_seeks > 0
    /\ ps_revived
    /\ ~ps_result_none
    /\ ps_result = UpstreamData(ps_from, Len(ps_result))
    /\ ps_from > 0

\* C30: an acquire() of the wrapper that raises changes neither the wrapper's
\* is_player_source nor the upstream's, so that a wrapper whose upstream is
\* attached to another owner is left unattached; and as long as acquire and
\* release are called on the wrapper only, the wrapper's flag equals the
\* upstream's.
C30_OwnershipCascades ==
    /\ [][PSAcquire /\ ms_raised' = "MediaException" =>
            UNCHANGED <<ps_is_player_source, is_player_source>>]_vars
    /\ [](~ms_direct => ps_is_player_source = is_player_source)

\* The parts of C30 that do hold: the flags agree while only the wrapper is
\* called, a raising acquire() leaves the upstream as it was, a successful one
\* attaches both and release() detaches both.
C30_CascadeOnSuccess ==
    /\ [](~ms_direct => ps_is_player_source = is_player_source)
    /\ [][PSAcquire /\ ms_raised' = "MediaException" =>
            UNCHANGED <<is_player_source, ms_holds>>]_vars
    /\ [][PSAcquire /\ ms_raised' = "none" =>
            ps_is_player_source' /\ is_player_source']_vars
    /\ [][PSRelease => ~ps_is_player_source' /\ ~is_player_source']_vars

\* acquire() of an unattached wrapper has raised because another owner holds
\* the upstream, and the wrapper is marked attached
C30_WrapperLeftAttached ==
    /\ backend = "memory"
    /\ ms_raised = "MediaException"
    /\ ps_is_player_source
    /\ ms_holds = 1
    /\ ms_direct

\* The members a get_audio_data step removes from the head of the group
SGPopped == Len(sg_sources) - Len(sg_sources')

\* C31: a get_audio_data of a SourceGroup that returns None leaves the group
\* without sources, every member it holds having answered None; and every
\* member a call removes from the head is released by that call, so that a
\* group that has returned None holds no source that is still attached.
C31_AdvanceReleasesHead ==
    [][\A n \in 1..MaxRequest : SGGetAudioData(n) =>
        /\ sg_result_none' => sg_sources' = <<>>
        /\ SGPopped >= 0
        /\ \A i \in 1..SGPopped :
            /\ ~src_is_player_source'[sg_sources[i].src]
            /\ src_kind[sg_sources[i].src] = "streaming" =>
                 src_pos'[sg_sources[i].src] = src_size[sg_sources[i].src]]_vars

\* The same for the calls that do not raise
C31_AdvanceReleasesHeadUnlessRaised ==
    [][\A n \in 1..MaxRequest : SGGetAudioData(n) /\ sg_raised' = "none" =>
        /\ sg_result_none' => sg_sources' = <<>>
        /\ \A i \in 1..SGPopped :
            /\ ~src_is_player_source'[sg_sources[i].src]
            /\ src_kind[sg_sources[i].src] = "streaming" =>
                 src_pos'[sg_sources[i].src] = src_size[sg_sources[i].src]]_vars

\* A call of remove returns: from the unlocked test when the player is not in
\* the set, or from the end of the `with` block
WTRemoveReturns(t) ==
    (WTRemoveCheck(t) \/ WTRemoveUnlock(t)) /\ wt_caller'[t].pc = "idle"

\* C32: when remove(p) returns to a thread other than the worker, p is not in
\* the set of players and the worker is not inside a `for` loop that has p
\* still to work on; and the worker calls p.work() only for a player that is
\* in the set, holding _operation_lock, so not again until p is added.
C32_RemoveFencesWork ==
    /\ [][\A t \in WTThreads : WTRemoveReturns(t) =>
            /\ wt_caller[t].player \notin wt_players'
            /\ wt_caller[t].player \notin wt_iter']_vars
    /\ [][\A p \in WTPlayers : WTWork(p) =>
            p \in wt_players /\ wt_operation_lock = "worker"]_vars
    /\ [](wt_iter \subseteq wt_players)

\* The worker has worked on p1, the main thread has removed p1 and remove has
\* returned, and the worker is in a later round of its loop, over p2 alone
C32_Witness ==
    /\ backend = "worker"
    /\ wt_calls["p1"] = 1
    /\ "p1" \notin wt_players
    /\ wt_caller["main"] = [pc |-> "idle", player |-> "p1"]
    /\ wt_pc = "iterate"
    /\ wt_iter = {"p2"}

\* Worker w was started and has not yet put itself into _threads
EXUnregistered(w) == ex_worker[w].pc \in {"run", "release"} /\ w \notin ex_threads

\* C33: while atexit() holds _thread_set_lock no started worker is still on
\* its way into _threads, so the copy of _threads that atexit() iterates
\* holds every started worker that has not ended; atexit(), once entered,
\* returns, and by then every worker that was started has left run().
C33_StartLockGate ==
    /\ [](ex_thread_set_lock = "atexit" => \A w \in Workers : ~EXUnregistered(w))
    /\ [][EXAtexitList =>
            \A w \in Workers :
                ex_worker[w].pc \in {"run", "release", "wait", "clear", "stopped"} =>
                    w \in ex_main'.todo]_vars
    /\ [](ex_main.pc = "done" => \A w \in Workers : ex_worker[w].pc \in {"new", "exited"})
    /\ (ex_main.pc = "atexit_acquire") ~> (ex_main.pc = "done")

\* atexit() waits for _thread_set_lock, which start() took for a worker that
\* has begun to run and is not in _threads yet
C33_Witness ==
    /\ backend = "exit"
    /\ ex_main.pc = "atexit_acquire"
    /\ ex_thread_set_lock = "start"
    /\ \E w \in Workers : EXUnregistered(w)

\* atexit() has returned after stopping both workers
C33_AllStopped ==
    /\ backend = "exit"
    /\ ex_main.pc = "done"
    /\ \A w \in Workers : ex_worker[w].pc = "exited"
    /\ ex_threads = {}

\* A flush ends in this step: at once in _flush, or at the on_buffer_end that
\* empties the queue
XAFlushCompletes == xa_flush_operation # None /\ xa_flush_operation' = None

\* C34: while a flush is pending on XAudio2 no step of work() pulls from the
\* source or submits a buffer; a play() during the flush sets _playing and
\* neither starts the voice nor registers the player; and the voice is started
\* and worker.add called only by play() with no flush pending or at the end of
\* a FLUSH with _playing set, at which moment no buffer is in use.
C34_FlushingState ==
    /\ [][XAGetAudioData \/ XARefill => xa_flush_operation = None]_vars
    /\ [][XAPlay /\ xa_flush_operation # None =>
            /\ xa_playing'
            /\ UNCHANGED <<xa_voice_playing, players, main_pc, cb_pc>>]_vars
    /\ [][XAFlushCompletes => xa_audio_data_in_use' = <<>>]_vars
    /\ [][(backend = "xa" /\ ~xa_voice_playing /\ xa_voice_playing') =>
            \/ XAPlay /\ xa_flush_operation = None /\ main_pc' = "add"
            \/ /\ XAFlushCompletes
               /\ xa_flush_operation = FLUSH
               /\ xa_playing
               /\ cb_pc' = "add"]_vars
    /\ [][(backend = "xa" /\ cb_pc # "add" /\ cb_pc' = "add") =>
            XAFlushCompletes /\ xa_playing /\ xa_voice_playing']_vars

\* The parts of C34 other than the first
C34_FlushCompletionRestarts ==
    /\ [][XAPlay /\ xa_flush_operation # None =>
            /\ xa_playing'
            /\ UNCHANGED <<xa_voice_playing, players, main_pc, cb_pc>>]_vars
    /\ [][XAFlushCompletes => xa_audio_data_in_use' = <<>>]_vars
    /\ [][(backend = "xa" /\ ~xa_voice_playing /\ xa_voice_playing') =>
            \/ XAPlay /\ xa_flush_operation = None /\ main_pc' = "add"
            \/ /\ XAFlushCompletes
               /\ xa_flush_operation = FLUSH
               /\ xa_playing
               /\ cb_pc' = "add"]_vars
    /\ [][(backend = "xa" /\ cb_pc # "add" /\ cb_pc' = "add") =>
            XAFlushCompletes /\ xa_playing /\ xa_voice_playing']_vars

\* The worker waits for the mainloop lock with _audio_data_lock held while the
\* mainloop thread waits for _audio_data_lock with the mainloop lock held
PLDeadlock ==
    /\ pl_pc["worker"] \in {"mainloop1", "mainloop2"}
    /\ pl_pc["pa"] \in {"write_callback", "underflow_callback"}

\* C35: on PulseAudio a thread that holds both the mainloop lock and
\* _audio_data_lock took the mainloop lock first, and no thread waits for the
\* mainloop lock while it holds _audio_data_lock; the worker and the mainloop
\* thread never wait for each other's lock.
C35_LockOrder ==
    /\ [](\A t \in PLThreads : pl_held[t] # <<"audio_data", "mainloop">>)
    /\ [](pl_pc["worker"] \notin {"mainloop1", "mainloop2"})
    /\ [](~PLDeadlock)

\* The deadlock itself
C35_NoDeadlock == ~(backend = "palock" /\ PLDeadlock)

\* C36: on XAudio2 and PulseAudio the worker does not hold the player's lock
\* while source.get_audio_data executes; it holds it again when it integrates
\* the result; a callback that needs the lock while the source is read gets it
\* as soon as no other thread than the worker is in its way.
C36_LockReleasedAroundGet ==
    /\ (backend = "palock" /\ pl_pc["worker"] = "get") =>
          /\ pl_held["worker"] = <<>>
          /\ (pl_pc["pa"] \in {"write_callback", "underflow_callback"}
                /\ pl_held["main"] = <<>>) => ENABLED PLCallbackLock
    /\ (backend = "palock" /\ pl_pc["worker"] = "add") =>
          pl_held["worker"] = <<"audio_data">>
    /\ (backend = "xa" /\ worker_pc = "get" /\ cb_pc = "idle"
          /\ main_pc # "delete_stop_remove" /\ xa_audio_data_in_use # <<>>
          /\ (xa_voice_playing \/ xa_flushing > 0)) => ENABLED XAOnBufferEnd

\* A callback of the mainloop thread holds _audio_data_lock while the worker
\* is in get_audio_data
C36_Witness ==
    /\ backend = "palock"
    /\ pl_pc["worker"] = "get"
    /\ pl_held["pa"] = <<"mainloop", "audio_data">>

\* The worker is inside work() with _operation_lock held and waits for
\* self._lock in _refill, while the thread that holds self._lock waits for
\* _operation_lock: delete() inside worker.remove
XADeleteDeadlock ==
    /\ backend = "xa"
    /\ worker_pc = "got"
    /\ main_pc = "delete_stop_remove"

\* The same with the callback thread inside the worker.add of _on_flush_complete
XACallbackDeadlock ==
    /\ backend = "xa"
    /\ worker_pc = "got"
    /\ main_pc # "work"
    /\ cb_pc = "add"

\* C37: with clear() only issued on a stopped player, the main thread, the
\* worker thread and the XAudio2 callback thread never reach a state where the
\* worker waits for the player's lock with its operation lock held while the
\* holder of the player's lock waits for the operation lock.
C37_NoDeadlock == ~XADeleteDeadlock /\ ~XACallbackDeadlock

\* A call of source.get_audio_data starts: work() enters _refill
XAGetStarts == backend = "xa" /\ worker_pc # "get" /\ worker_pc' = "get"

\* work() returns from its refill loop
XAWorkEnds == backend = "xa" /\ worker_pc = "got" /\ worker_pc' = "idle"

\* C38: XAudio2 work() asks the source for packets of half a second, aligned
\* down to a frame, and goes on while fewer than max_buffer_count buffers are
\* in use and the source is not exhausted: a pull starts only then, and work()
\* returns only when no refill is needed; never more than max_buffer_count
\* buffers are in use; after the source has returned None no get_audio_data
\* call starts before clear().
C38_RefillPolicy ==
    /\ [](backend = "xa" => Len(xa_audio_data_in_use) <= max_buffer_count)
    /\ [][XAGetStarts =>
            /\ ~source_none
            /\ ~xa_source_exhausted'
            /\ Len(xa_audio_data_in_use') < max_buffer_count]_vars
    /\ [][XAWorkEnds =>
            (xa_source_exhausted' \/ Len(xa_audio_data_in_use') = max_buffer_count)]_vars
    /\ [][XAGetAudioData =>
            (xa_audio_data' = None \/ xa_audio_data' \in 1..xa_buffer_size)]_vars
    /\ [](/\ xa_buffer_size % bytes_per_frame = 0
          /\ 2 * xa_buffer_size <= bytes_per_second
          /\ bytes_per_second < 2 * (xa_buffer_size + bytes_per_frame))

\* work() has stopped pulling with max_buffer_count buffers in use and more to
\* read from the source
C38_Witness ==
    /\ backend = "xa"
    /\ worker_pc = "idle"
    /\ Len(xa_audio_data_in_use) = max_buffer_count
    /\ ~xa_source_exhausted
    /\ source_left > 0

\* Bytes a step writes to the DirectSound ring, and the empty space work() or
\* prefill_audio() computes in that step
DSWritten == ds_write_cursor' - ds_write_cursor
DSEmptyAtWork == DSGetEmptyBufferSpace(ds_write_cursor, ds_play_cursor')

\* C39: DirectSound work() writes to the ring, source data or silence, only
\* when the empty space R - max(write_cursor - play_cursor, 0) is more than
\* two thirds of the ring size R, and every write is a whole number of frames.
C39_RefillThreshold ==
    [][(backend = "ds" /\ DSWritten # 0) =>
          /\ 3 * DSEmptyAtWork > 2 * ds_buffer_size
          /\ DSWritten % bytes_per_frame = 0]_vars

\* What the code does: it writes exactly when the empty space is more than
\* _tolerable_empty_space, a third of the ring, and then fills all of it
C39_RefillAboveTolerable ==
    [][((backend = "ds") /\ (DSWork \/ DSPrefillAudio)) =>
          /\ DSWritten = IF DSEmptyAtWork > ds_tolerable_empty_space
                         THEN DSEmptyAtWork ELSE 0
          /\ DSWritten % bytes_per_frame = 0]_vars

\* A call of get_audio_time_diff in the filter's own machine
DFCalled == \E diff \in DriftSamples : DFGetAudioTimeDiff(diff)

\* C40: audio_diff_avg_count stays within 0..AUDIO_DIFF_AVG_NB;
\* get_audio_time_diff returns 0 on each of the first AUDIO_DIFF_AVG_NB calls
\* after __init__, after clear() and after a sample with |diff| >=
\* AV_NOSYNC_THRESHOLD; such a sample resets cum and count to 0 and returns 0;
\* a call returns a non-zero value only with the count at AUDIO_DIFF_AVG_NB.
C40_DriftWarmup ==
    /\ [](audio_diff_avg_count \in 0..AUDIO_DIFF_AVG_NB)
    /\ []((backend = "drift") =>
            audio_diff_avg_count = Min(df_calls, AUDIO_DIFF_AVG_NB))
    /\ [][(DFCalled /\ df_calls' <= AUDIO_DIFF_AVG_NB) => df_ret' = 0]_vars
    /\ [][\A diff \in DriftSamples :
            (DFGetAudioTimeDiff(diff) /\ Abs(diff) >= AV_NOSYNC_THRESHOLD) =>
               /\ audio_diff_avg_count' = 0
               /\ audio_diff_cum' = 0
               /\ df_ret' = 0]_vars
    /\ [][(DFCalled /\ df_ret' # 0) =>
            /\ audio_diff_avg_count = AUDIO_DIFF_AVG_NB
            /\ audio_diff_avg_count' = AUDIO_DIFF_AVG_NB]_vars
    /\ [][DFClear => (audio_diff_avg_count' = 0 /\ audio_diff_cum' = 0)]_vars

\* The call after the warm-up has returned a compensation
C40_Witness ==
    /\ backend = "drift"
    /\ df_calls = AUDIO_DIFF_AVG_NB + 1
    /\ audio_diff_avg_count = AUDIO_DIFF_AVG_NB
    /\ df_ret # 0

====
